---- MODULE Spec2Model ----
(***************************************************************************)
(* Download orchestration of Online-Docuphile: the four download handlers  *)
(* of the controllers (downloadSingle, downloadMultiple, downloadVideo,    *)
(* batchDownloadVideos), the streaming fetcher downloadFile they call, the *)
(* Download records they keep and the files they leave in the temp         *)
(* directory.  One behaviour is one request served by one Node process.    *)
(*                                                                         *)
(* Every await of the code is a step boundary: an action is the code that  *)
(* runs between two awaits (an async callback runs synchronously up to its *)
(* first await).  The database, the remote server and the file system are  *)
(* the environment: each of their answers is a nondeterministic choice.    *)
(* Numbers that may be fractional (options.maxConcurrent, the loop index   *)
(* of downloadMultiple) are kept in halves: h stands for h/2.  Sizes are   *)
(* in MB.                                                                  *)
(***************************************************************************)
EXTENDS Integers, Sequences, FiniteSets, TLC

\* ------------------------------------------------------------------ bounds
MaxUrls == 2
MaxIter == 10
MaxFiles == 2
MaxClock == 6

\* --------------------------------------------------------------- constants
MAX_FILE_SIZE == 100
DefaultConcurrent == 3
ConcurrentCeiling == 5
MaxVideoBatch == 10
MaxUrlsPerRequest == 10
olderThanDays == 1
DayLength == 2

VARIABLES
    handler,    \* the route handler serving the request
    urls,       \* req.body.urls (req.body.url as a one-element sequence)
    urlsKind,   \* what req.body.urls is: "array", "string" or "missing"
    options,    \* req.body.options: [mcKind, mcH] is options.maxConcurrent
    extractAudio, \* req.body.extractAudio (downloadVideo)
    proc,       \* the Node process: "up" or "exited"
    phase,      \* where the handler's own async function stands
    work,       \* the URLs the handler iterates (urls or socialMediaUrls)
    cpc,        \* per position: state of its Download.create promise
    rec,        \* per position: the in-memory Download document
    db,         \* per position: the document as last persisted
    ipc,        \* per position: where the per-item code stands
    received,   \* per position: downloadFile's fileSize counter
    fileAt,     \* per position: which file of the attempt is on disk
    audio,      \* downloadVideo: the file written by extractAudio
    cause,      \* per position: what made its downloadFile call fail
    itemRes,    \* per position: value the item's async callback returned
    idx,        \* downloadMultiple: loop variable i, in halves
    idxNaN,     \* downloadMultiple: i is NaN
    win,        \* positions of the window being awaited
    winNo,      \* number of loop iterations entered so far
    launchWin,  \* per position: iteration that launched it (0: never)
    results,    \* the handler's results array
    resp,       \* the response sent (status 0: none yet)
    calls,      \* per position: number of downloadFile calls made for it
    tried,      \* per position: strategies VideoDownloader.downloadVideo
                \* has invoked, in order
    left,       \* per position: strategies whose file is in the temp
                \* directory without being the result handed to the caller
    fnIn,       \* a helper function called on its own: name and arguments
    fnOut,      \* ... and what the call returned (done: it has returned)
    cwd,        \* process.cwd(), as path segments
    clock,      \* Date.now(), in half days
    disk,       \* per file ever written: where it is and its mtime
    sweep       \* the run of cleanupTempFiles started by the last cron tick

vars == <<cause, handler, urls, urlsKind, options, extractAudio, proc, phase, work, cpc, rec,
          db, ipc, received, fileAt, audio, itemRes, idx, idxNaN, win,
          winNo, launchWin, results, resp, calls, tried, left,
          fnIn, fnOut, cwd, clock, disk, sweep>>

reqVars == <<handler, urls, urlsKind, options, extractAudio>>
callVars == <<fnIn, fnOut>>
videoVars == <<tried, left>>
sweepVars == <<cwd, clock, disk, sweep>>

\* ------------------------------------------------------------ value spaces
Handlers == {"downloadMultiple", "batchDownloadVideos",
             "downloadSingle", "downloadVideo"}

UrlPool == <<"https://example.com/a.pdf", "https://youtube.com/watch",
             "https://instagram.com/p/1">>

\* strings that are no http or https URL
InvalidUrls == {"ftp://example.com/a.pdf", "example.com/a.pdf", "not a url"}

Pos == 1..MaxUrls

NoDoc == [status |-> "none", error |-> "", fileName |-> "", fileSize |-> 0]

NoRes == [set |-> FALSE, success |-> FALSE, url |-> "", fileName |-> "",
          fileSize |-> 0, error |-> ""]

NoResp == [status |-> 0, results |-> <<>>, total |-> 0, successful |-> 0,
           failed |-> 0, message |-> ""]

Terminal == {"completed", "failed"}

FileIds == 1..MaxFiles

NoFile == [state |-> "none", dir |-> <<>>, mtime |-> 0]

IdleSweep == [pc |-> "idle", files |-> <<>>, k |-> 0, cutoff |-> 0,
              outcome |-> [f \in FileIds |-> "none"]]

NoCall == [fn |-> "none"]
NotReturned == [done |-> FALSE]

\* --------------------------------------------------------- pure functions
Min(a, b) == IF a < b THEN a ELSE b
Max(a, b) == IF a > b THEN a ELSE b

\* options.maxConcurrent as the JSON body can carry it: absent, a number
\* (in halves) or a non-numeric string.
McInputs ==
    {[mcKind |-> "undefined", mcH |-> 0], [mcKind |-> "string", mcH |-> 0]}
    \cup {[mcKind |-> "number", mcH |-> h] : h \in {-2, 1, 2, 4, 5}}

\* x || 3 : undefined, 0 and "" are falsy, everything else is kept.
OrDefault(o) ==
    IF o.mcKind = "undefined" \/ (o.mcKind = "number" /\ o.mcH = 0)
    THEN [nan |-> FALSE, h |-> 2 * DefaultConcurrent]
    ELSE IF o.mcKind = "string" THEN [nan |-> TRUE, h |-> 0]
    ELSE [nan |-> FALSE, h |-> o.mcH]

\* Math.min(v, 5): NaN if an argument converts to NaN.
MathMin(v, c) ==
    IF v.nan THEN v ELSE [nan |-> FALSE, h |-> Min(v.h, 2 * c)]

\* const maxDownloads = Math.min(options?.maxConcurrent || 3, 5)
maxDownloads == MathMin(OrDefault(options), ConcurrentCeiling)

\* ToIntegerOrInfinity of a number kept in halves: truncation toward zero.
Trunc(h) == IF h >= 0 THEN h \div 2 ELSE -((-h) \div 2)

\* Array.prototype.slice's relative index.
RelIndex(k, len) == IF k < 0 THEN Max(len + k, 0) ELSE Min(k, len)

\* urls.slice(i, i + maxDownloads) as the set of 1-based positions taken;
\* a NaN bound converts to 0.
SlicePositions(len, i, m) ==
    LET from == RelIndex(Trunc(i), len)
        to   == IF m.nan THEN 0 ELSE RelIndex(Trunc(i + m.h), len)
    IN  {p \in 1..len : from < p /\ p <= to}

\* i < urls.length
LoopCond(len, i, inan) == ~inan /\ i < 2 * len

\* the entries of f at the positions of S, in ascending position order
RECURSIVE SeqOfSet(_, _)
SeqOfSet(f, S) ==
    IF S = {} THEN <<>>
    ELSE LET p == CHOOSE x \in S : \A y \in S : x <= y
         IN  <<f[p]>> \o SeqOfSet(f, S \ {p})

RECURSIVE CountSuccess(_)
CountSuccess(rs) ==
    IF rs = <<>> THEN 0
    ELSE (IF Head(rs).success THEN 1 ELSE 0) + CountSuccess(Tail(rs))

RECURSIVE CountFailure(_)
CountFailure(rs) ==
    IF rs = <<>> THEN 0
    ELSE (IF ~Head(rs).success THEN 1 ELSE 0) + CountFailure(Tail(rs))

\* A string is the sequence of its characters.
\* the characters of the URLs of UrlPool and InvalidUrls
Chars(url) ==
    IF url = "https://example.com/a.pdf" THEN <<"h", "t", "t", "p", "s", ":", "/", "/", "e", "x", "a", "m", "p", "l", "e", ".", "c", "o", "m", "/", "a", ".", "p", "d", "f">>
    ELSE IF url = "https://youtube.com/watch" THEN <<"h", "t", "t", "p", "s", ":", "/", "/", "y", "o", "u", "t", "u", "b", "e", ".", "c", "o", "m", "/", "w", "a", "t", "c", "h">>
    ELSE IF url = "https://instagram.com/p/1" THEN <<"h", "t", "t", "p", "s", ":", "/", "/", "i", "n", "s", "t", "a", "g", "r", "a", "m", ".", "c", "o", "m", "/", "p", "/", "1">>
    ELSE IF url = "ftp://example.com/a.pdf" THEN <<"f", "t", "p", ":", "/", "/", "e", "x", "a", "m", "p", "l", "e", ".", "c", "o", "m", "/", "a", ".", "p", "d", "f">>
    ELSE IF url = "example.com/a.pdf" THEN <<"e", "x", "a", "m", "p", "l", "e", ".", "c", "o", "m", "/", "a", ".", "p", "d", "f">>
    ELSE <<"n", "o", "t", " ", "a", " ", "u", "r", "l">>

StartsWith(s, pre) == Len(s) >= Len(pre) /\ SubSeq(s, 1, Len(pre)) = pre

EndsWith(s, suf) ==
    Len(s) >= Len(suf) /\ SubSeq(s, Len(s) - Len(suf) + 1, Len(s)) = suf

\* String.prototype.includes
Includes(s, d) ==
    \E i \in 0..(Len(s) - Len(d)) : SubSeq(s, i + 1, i + Len(d)) = d

LowerChar(c) ==
    CASE c = "A" -> "a"
      [] c = "B" -> "b"
      [] c = "C" -> "c"
      [] c = "D" -> "d"
      [] c = "E" -> "e"
      [] c = "F" -> "f"
      [] c = "G" -> "g"
      [] c = "H" -> "h"
      [] c = "I" -> "i"
      [] c = "J" -> "j"
      [] c = "K" -> "k"
      [] c = "L" -> "l"
      [] c = "M" -> "m"
      [] c = "N" -> "n"
      [] c = "O" -> "o"
      [] c = "P" -> "p"
      [] c = "Q" -> "q"
      [] c = "R" -> "r"
      [] c = "S" -> "s"
      [] c = "T" -> "t"
      [] c = "U" -> "u"
      [] c = "V" -> "v"
      [] c = "W" -> "w"
      [] c = "X" -> "x"
      [] c = "Y" -> "y"
      [] c = "Z" -> "z"
      [] OTHER -> c

\* String.prototype.toLowerCase
toLowerCase(s) == [i \in 1..Len(s) |-> LowerChar(s[i])]

\* the first index of s at or after i that holds a character of stop, or
\* Len(s) + 1
RECURSIVE IndexOfAny(_, _, _)
IndexOfAny(s, stop, i) ==
    IF i > Len(s) \/ s[i] \in stop THEN i ELSE IndexOfAny(s, stop, i + 1)

\* new URL(url).hostname for the strings the model passes in: an http or
\* https scheme followed by "//" and a non-empty host that ends at the
\* first "/", "?" or "#"; any other string makes the constructor throw.
UrlHostname(url) ==
    LET https == <<"h", "t", "t", "p", "s", ":", "/", "/">>
        http  == <<"h", "t", "t", "p", ":", "/", "/">>
        rest  == IF StartsWith(url, https)
                 THEN SubSeq(url, Len(https) + 1, Len(url))
                 ELSE IF StartsWith(url, http)
                 THEN SubSeq(url, Len(http) + 1, Len(url))
                 ELSE <<>>
        host  == SubSeq(rest, 1, IndexOfAny(rest, {"/", "?", "#"}, 1) - 1)
    IN  [throws |-> host = <<>>, hostname |-> host]

\* this.supportedPlatforms, in the order Object.entries walks it
supportedPlatforms ==
    <<[platform |-> "youtube", domains |->
        <<<<"y", "o", "u", "t", "u", "b", "e", ".", "c", "o", "m">>,
          <<"y", "o", "u", "t", "u", ".", "b", "e">>,
          <<"y", "o", "u", "t", "u", "b", "e", "-", "n", "o", "c", "o", "o", "k", "i", "e", ".", "c", "o", "m">>,
          <<"m", ".", "y", "o", "u", "t", "u", "b", "e", ".", "c", "o", "m">>>>],
      [platform |-> "instagram", domains |->
        <<<<"i", "n", "s", "t", "a", "g", "r", "a", "m", ".", "c", "o", "m">>,
          <<"w", "w", "w", ".", "i", "n", "s", "t", "a", "g", "r", "a", "m", ".", "c", "o", "m">>,
          <<"i", "n", "s", "t", "a", "g", "r", ".", "a", "m">>>>],
      [platform |-> "twitter", domains |->
        <<<<"t", "w", "i", "t", "t", "e", "r", ".", "c", "o", "m">>,
          <<"x", ".", "c", "o", "m">>,
          <<"t", ".", "c", "o">>>>],
      [platform |-> "tiktok", domains |->
        <<<<"t", "i", "k", "t", "o", "k", ".", "c", "o", "m">>,
          <<"w", "w", "w", ".", "t", "i", "k", "t", "o", "k", ".", "c", "o", "m">>,
          <<"v", "m", ".", "t", "i", "k", "t", "o", "k", ".", "c", "o", "m">>>>],
      [platform |-> "facebook", domains |->
        <<<<"f", "a", "c", "e", "b", "o", "o", "k", ".", "c", "o", "m">>,
          <<"f", "b", ".", "c", "o", "m">>,
          <<"f", "b", ".", "w", "a", "t", "c", "h">>>>],
      [platform |-> "linkedin", domains |->
        <<<<"l", "i", "n", "k", "e", "d", "i", "n", ".", "c", "o", "m">>>>],
      [platform |-> "reddit", domains |->
        <<<<"r", "e", "d", "d", "i", "t", ".", "c", "o", "m">>,
          <<"v", ".", "r", "e", "d", "d", ".", "i", "t">>>>],
      [platform |-> "twitch", domains |->
        <<<<"t", "w", "i", "t", "c", "h", ".", "t", "v">>,
          <<"c", "l", "i", "p", "s", ".", "t", "w", "i", "t", "c", "h", ".", "t", "v">>>>],
      [platform |-> "vimeo", domains |->
        <<<<"v", "i", "m", "e", "o", ".", "c", "o", "m">>>>],
      [platform |-> "dailymotion", domains |->
        <<<<"d", "a", "i", "l", "y", "m", "o", "t", "i", "o", "n", ".", "c", "o", "m">>,
          <<"d", "a", "i", ".", "l", "y">>>>]>>

\* the loop of isSocialMediaUrl: the first platform, from position k on,
\* one of whose domains the host name includes
RECURSIVE FirstPlatform(_, _)
FirstPlatform(hostname, k) ==
    IF k > Len(supportedPlatforms) THEN "null"
    ELSE IF \E j \in 1..Len(supportedPlatforms[k].domains) :
               Includes(hostname, supportedPlatforms[k].domains[j])
    THEN supportedPlatforms[k].platform
    ELSE FirstPlatform(hostname, k + 1)

NotMatched == [isSocialMedia |-> FALSE, platform |-> "null", threw |-> FALSE]

\* isSocialMediaUrl as it would be without its try/catch
isSocialMediaUrlNoCatch(url) ==
    LET u == UrlHostname(url)
        platform == FirstPlatform(toLowerCase(u.hostname), 1)
    IN  IF u.throws THEN [NotMatched EXCEPT !.threw = TRUE]
        ELSE IF platform # "null"
        THEN [isSocialMedia |-> TRUE, platform |-> platform, threw |-> FALSE]
        ELSE NotMatched

\* VideoDownloader.isSocialMediaUrl(url); threw: the call threw instead of
\* returning
isSocialMediaUrl(url) ==
    LET u == UrlHostname(url)
        platform == FirstPlatform(toLowerCase(u.hostname), 1)
    IN  IF u.throws THEN NotMatched
        ELSE IF platform # "null"
        THEN [isSocialMedia |-> TRUE, platform |-> platform, threw |-> FALSE]
        ELSE NotMatched

RECURSIVE FilterSocial(_)
FilterSocial(us) ==
    IF us = <<>> THEN <<>>
    ELSE IF isSocialMediaUrl(Chars(Head(us))).isSocialMedia
         THEN <<Head(us)>> \o FilterSocial(Tail(us))
         ELSE FilterSocial(Tail(us))

\* the first index at or after i where d occurs in s, or 0
RECURSIVE FindSub(_, _, _)
FindSub(s, d, i) ==
    IF i + Len(d) - 1 > Len(s) THEN 0
    ELSE IF SubSeq(s, i, i + Len(d) - 1) = d THEN i
    ELSE FindSub(s, d, i + 1)

\* isURL(str, {protocols: ['http', 'https'], require_protocol: true}) of
\* the validator library, for the strings the model passes in: no white
\* space, a protocol of the list before "://", and a host with a dot
isURL(str) ==
    LET at    == FindSub(str, <<":", "/", "/">>, 1)
        proto == SubSeq(str, 1, at - 1)
        rest  == SubSeq(str, at + 3, Len(str))
        host  == SubSeq(rest, 1, IndexOfAny(rest, {"/", "?", "#"}, 1) - 1)
    IN  /\ \A i \in 1..Len(str) : str[i] # " "
        /\ at > 0
        /\ proto \in {<<"h", "t", "t", "p">>, <<"h", "t", "t", "p", "s">>}
        /\ host # <<>> /\ Includes(host, <<".">>)

\* isArray({min, max}) of express-validator
isArray(kind, len, min, max) == kind = "array" /\ min <= len /\ len <= max

\* ValidationErrors as it would be if the validators never failed
NoValidationErrors == FALSE

\* !validationResult(req).isEmpty() for the route of the handler: the
\* batch routes test urls with isArray({min: 1, max: 10}) and every
\* urls.* with isURL, the single routes test url with isURL
ValidationErrors ==
    \/ /\ handler \in {"downloadMultiple", "batchDownloadVideos"}
       /\ ~isArray(urlsKind, Len(urls), 1, MaxUrlsPerRequest)
    \/ \E i \in 1..Len(urls) : ~isURL(Chars(urls[i]))

\* where the per-item code stands inside VideoDownloader.downloadVideo:
\* the await of downloadYouTubeVideo (ytInfo: ytdl.getInfo, ytPipe: the
\* pipeline, ytStat: fs.stat) or of downloadWithYtdlp (dlpExec:
\* ytdlp.exec, dlpReaddir, dlpStat, dlpUnlink, dlpInfo: getVideoInfo,
\* dlpRename) it is waiting on
VideoStages == {"ytInfo", "ytPipe", "ytStat", "dlpExec", "dlpReaddir",
                "dlpStat", "dlpUnlink", "dlpInfo", "dlpRename"}

\* FirstStrategy as it would be if every platform went to yt-dlp directly
FirstStrategyYtdlpOnly(url) == "ytdlp"

\* VideoDownloader.downloadVideo up to its first await: youtube goes to
\* downloadYouTubeVideo, every other platform to downloadWithYtdlp.
FirstStrategy(url) ==
    IF isSocialMediaUrl(Chars(url)).platform = "youtube" THEN "ytdl"
    ELSE "ytdlp"

FirstStage(url) == IF FirstStrategy(url) = "ytdl" THEN "ytInfo" ELSE "dlpExec"

\* maxSize of a downloadFile call: options.maxSize if the caller's options
\* reach downloadFile and carry one, MAX_FILE_SIZE otherwise.
maxSize ==
    IF handler = "downloadMultiple" /\ options.maxSize >= 0
    THEN options.maxSize ELSE MAX_FILE_SIZE

\* response.headers['content-type'] || '' as main type and subtype
NoContentType == [main |-> "", sub |-> ""]

ContentTypes == {NoContentType, [main |-> "image", sub |-> "png"],
                 [main |-> "font", sub |-> "woff2"]}

\* isSupportedFileType(contentType, url): no content type is allowed, else
\* the main type must be one of the five listed.
isSupportedFileType(contentType) ==
    \/ contentType = NoContentType
    \/ contentType.main \in {"image", "application", "text", "video", "audio"}

\* the message downloadFile's catch block gives a rejected axios call
RequestErrors == {"ECONNABORTED", "ENOTFOUND", "status404"}

EnhancedMessage(code) ==
    IF code = "ECONNABORTED" THEN "Download timeout"
    ELSE IF code = "ENOTFOUND" THEN "Cannot resolve URL"
    ELSE "Server responded with 404"

\* parseInt(response.headers['content-length']) in MB; -1 stands for NaN
ContentLengths == {-1, 50, 150}

\* chunk.length of a 'data' event, in MB
ChunkSizes == {50}

\* ------------------------------------------------------------ errorHandler
\* new AppError(message, statusCode)
AppError(message, statusCode) ==
    [isAppError |-> TRUE, message |-> message, statusCode |-> statusCode,
     status |-> IF statusCode \div 100 = 4 THEN "fail" ELSE "error",
     isOperational |-> TRUE, stack |-> "AppError: at handler"]

\* an error of a library or of the runtime: statusCode 0 and status
\* "undefined" stand for properties it does not have
OtherError(message, statusCode) ==
    [isAppError |-> FALSE, message |-> message, statusCode |-> statusCode,
     status |-> "undefined", isOperational |-> FALSE,
     stack |-> "Error: at internals"]

NoBody == [keys |-> {}, status |-> "", error |-> "none", message |-> "",
           stack |-> ""]

\* process.env.NODE_ENV === 'development'
IsDevelopmentUnlessProduction(env) == env # "production"

IsDevelopment(env) == env = "development"

\* the response errorHandler(err, req, res, next) sends
errorHandler(err, env) ==
    LET statusCode == IF err.statusCode = 0 THEN 500 ELSE err.statusCode
        status == IF err.status = "undefined" THEN "error" ELSE err.status
    IN  IF IsDevelopment(env)
        THEN [code |-> statusCode,
              body |-> [keys |-> {"success", "status", "error", "message",
                                  "stack"},
                        status |-> status, error |-> err.message,
                        message |-> err.message, stack |-> err.stack]]
        ELSE IF err.isOperational
             THEN [code |-> statusCode,
                   body |-> [NoBody EXCEPT !.keys = {"success", "message"},
                                           !.message = err.message]]
             ELSE [code |-> 500,
                   body |-> [NoBody EXCEPT !.keys = {"success", "message"},
                                           !.message = "Something went wrong!"]]

\* ------------------------------------------------ file name of a download
\* new URL(url).pathname for the strings the model passes in: from the
\* first "/" after the host to the "?" or "#", "/" without one
UrlPathname(url) ==
    LET https == <<"h", "t", "t", "p", "s", ":", "/", "/">>
        http  == <<"h", "t", "t", "p", ":", "/", "/">>
        rest  == IF StartsWith(url, https)
                 THEN SubSeq(url, Len(https) + 1, Len(url))
                 ELSE IF StartsWith(url, http)
                 THEN SubSeq(url, Len(http) + 1, Len(url))
                 ELSE <<>>
        from  == IndexOfAny(rest, {"/", "?", "#"}, 1)
    IN  IF from > Len(rest) \/ rest[from] # "/" THEN <<"/">>
        ELSE SubSeq(rest, from, IndexOfAny(rest, {"?", "#"}, from) - 1)

\* the last index at or before i where s holds c, or 0
RECURSIVE LastIndexOf(_, _, _)
LastIndexOf(s, c, i) ==
    IF i < 1 THEN 0 ELSE IF s[i] = c THEN i ELSE LastIndexOf(s, c, i - 1)

RECURSIVE StripTrailingSlashes(_)
StripTrailingSlashes(s) ==
    IF s # <<>> /\ s[Len(s)] = "/"
    THEN StripTrailingSlashes(SubSeq(s, 1, Len(s) - 1)) ELSE s

\* path.basename(pathname)
basename(pathname) ==
    LET t == StripTrailingSlashes(pathname)
    IN  SubSeq(t, LastIndexOf(t, "/", Len(t)) + 1, Len(t))

\* path.extname(fileName): from the last "." on, empty without a "." or
\* when the only "." is the first character
extname(fileName) ==
    LET dot == LastIndexOf(fileName, ".", Len(fileName))
    IN  IF dot <= 1 THEN <<>> ELSE SubSeq(fileName, dot, Len(fileName))

AlnumChars ==
    {"a", "b", "c", "d", "e", "f", "g", "h", "i", "j", "k", "l", "m",
     "n", "o", "p", "q", "r", "s", "t", "u", "v", "w", "x", "y", "z",
     "A", "B", "C", "D", "E", "F", "G", "H", "I", "J", "K", "L", "M",
     "N", "O", "P", "Q", "R", "S", "T", "U", "V", "W", "X", "Y", "Z",
     "0", "1", "2", "3", "4", "5", "6", "7", "8", "9"}

\* mimeMap[contentType.split(';')[0]] || 'bin', for the types of the model
mimeMap(contentType) ==
    LET clean == SubSeq(contentType, 1,
                        IndexOfAny(contentType, {";"}, 1) - 1)
    IN  IF clean = <<"a", "p", "p", "l", "i", "c", "a", "t", "i", "o", "n", "/", "p", "d", "f">> THEN <<"p", "d", "f">>
        ELSE IF clean = <<"i", "m", "a", "g", "e", "/", "p", "n", "g">> THEN <<"p", "n", "g">>
        ELSE <<"b", "i", "n">>

\* getFileExtension(url, contentType): the extension the pathname ends
\* with (/\.([a-zA-Z0-9]+)(?:[?#]|$)/), lower-cased, if at most 10 long;
\* else the one mimeMap gives the content type; else 'bin'
getFileExtension(url, contentType) ==
    LET pathname == UrlPathname(url)
        dot == LastIndexOf(pathname, ".", Len(pathname))
        ext == SubSeq(pathname, dot + 1, Len(pathname))
    IN  IF dot > 0 /\ ext # <<>> /\ Len(ext) <= 10
           /\ \A i \in 1..Len(ext) : ext[i] \in AlnumChars
        THEN toLowerCase(ext)
        ELSE IF contentType # <<>> THEN mimeMap(contentType)
        ELSE <<"b", "i", "n">>

\* fileName.replace(/\.\./g, '_')
RECURSIVE ReplaceDotDot(_)
ReplaceDotDot(s) ==
    IF Len(s) < 2 THEN s
    ELSE IF s[1] = "." /\ s[2] = "."
    THEN <<"_">> \o ReplaceDotDot(SubSeq(s, 3, Len(s)))
    ELSE <<s[1]>> \o ReplaceDotDot(Tail(s))

\* the characters /[\/\\:*?"<>|]/ replaces
InvalidFileChars == {"/", "\\", ":", "*", "?", "\"", "<", ">", "|"}

sanitizeFileName(fileName) ==
    LET t == ReplaceDotDot(fileName)
        u == [i \in 1..Len(t) |-> IF t[i] \in InvalidFileChars THEN "_"
                                  ELSE t[i]]
    IN  SubSeq(u, 1, Min(Len(u), 255))

NoHeader == [present |-> FALSE, filename |-> <<>>]

\* originalFileName of downloadFile; contentDisposition.filename is what
\* the header's filename parameter holds, quotes removed (empty: the
\* header has none)
originalFileName(url, contentDisposition) ==
    LET urlFileName == basename(UrlPathname(url))
    IN  IF contentDisposition.present /\ contentDisposition.filename # <<>>
        THEN contentDisposition.filename
        ELSE IF urlFileName # <<>> /\ Includes(urlFileName, <<".">>)
        THEN urlFileName
        ELSE <<"d", "o", "w", "n", "l", "o", "a", "d", "e", "d", "_", "f", "i", "l", "e">>

\* the fileName downloadFile returns; an empty customFileName is none
\* path.join(base, rel) on path segments: "" and "." are dropped and a
\* ".." segment removes the segment before it
RECURSIVE pathJoin(_, _)
pathJoin(base, rel) ==
    IF rel = <<>> THEN base
    ELSE IF Head(rel) \in {"", "."} THEN pathJoin(base, Tail(rel))
    ELSE IF Head(rel) = ".."
         THEN pathJoin(SubSeq(base, 1, Len(base) - 1), Tail(rel))
         ELSE pathJoin(Append(base, Head(rel)), Tail(rel))

\* __dirname of utils/downloadUtils.js
utilsDirname == <<"backend", "src", "utils">>

\* the directory downloadFile writes into and cleanupTempFiles lists
tempDir == pathJoin(utilsDirname, <<"..", "temp">>)

\* the string of a sequence of characters
RECURSIVE Str(_)
Str(cs) == IF cs = <<>> THEN "" ELSE Head(cs) \o Str(Tail(cs))

\* the segments of a path between its "/" separators, as strings
RECURSIVE SplitPath(_)
SplitPath(cs) ==
    LET i == IndexOfAny(cs, {"/"}, 1)
    IN  IF i > Len(cs) THEN <<Str(cs)>>
        ELSE <<Str(SubSeq(cs, 1, i - 1))>>
                 \o SplitPath(SubSeq(cs, i + 1, Len(cs)))

\* randomBytes(16).toString('hex') of one call
tempFileName == <<"9", "f", "3", "a">>

\* path.join(tempDir, `${tempFileName}_${finalFileName}`)
finalPath(name) ==
    pathJoin(tempDir, SplitPath(tempFileName \o <<"_">> \o name))

\* path.dirname of a path given by its segments
dirname(path) == SubSeq(path, 1, Len(path) - 1)

\* the directories of the deployment: fs.rename into any other fails
ExistingDirs ==
    {<<"backend">>, <<"backend", "src">>, utilsDirname, tempDir}

returnedFileName(url, customFileName, contentDisposition, contentType) ==
    LET chosen == IF customFileName # <<>> THEN customFileName
                  ELSE sanitizeFileName(
                          originalFileName(url, contentDisposition))
        extension == getFileExtension(url, contentType)
    IN  IF extname(chosen) = <<>> /\ extension # <<"b", "i", "n">>
        THEN chosen \o <<".">> \o extension
        ELSE chosen

\* the file name downloadFile returns for a URL of UrlPool when the
\* caller gives no name and the response no Content-Disposition
finalFileName(url) ==
    IF url = "https://example.com/a.pdf" THEN "a.pdf" ELSE "downloaded_file"

\* the document a handler passes to Download.create
\* paths the Download schema marks required: true
RequiredPaths == {"user", "fileName", "fileUrl"}

\* the paths of the object each handler passes to Download.create
CreatePaths(h) ==
    IF h = "downloadSingle" THEN {"user", "fileUrl", "fileName", "status"}
    ELSE IF h = "downloadMultiple" THEN {"user", "fileUrl", "status"}
    ELSE IF h = "downloadVideo"
    THEN {"user", "fileUrl", "fileName", "status", "metadata"}
    ELSE {"user", "fileUrl", "status", "metadata"}

\* the required validators of the schema accept the object.  CreateResolve
\* does not ask for this: the database is the environment there, and the
\* handlers are followed past their creates whatever the schema says.
PassesValidation(h) == RequiredPaths \subseteq CreatePaths(h)

NewDoc(h, url) ==
    [status   |-> IF h \in {"downloadSingle", "downloadVideo"}
                  THEN "downloading" ELSE "pending",
     error    |-> "",
     fileName |-> IF h = "downloadSingle" THEN "pending"
                  ELSE IF h = "downloadVideo" THEN "pending_video" ELSE "",
     fileSize |-> 0]

Completed(doc, name, size) ==
    [doc EXCEPT !.status = "completed", !.fileName = name, !.fileSize = size]

Failed(doc, msg) == [doc EXCEPT !.status = "failed", !.error = msg]

SuccessRes(url, name, size) ==
    [set |-> TRUE, success |-> TRUE, url |-> url, fileName |-> name,
     fileSize |-> size, error |-> ""]

\* FailureRes as it would be with a fixed text in place of error.message
FailureResFixedText(url, msg) ==
    [set |-> TRUE, success |-> FALSE, url |-> url, fileName |-> "",
     fileSize |-> 0, error |-> "Download failed"]

FailureRes(url, msg) ==
    [set |-> TRUE, success |-> FALSE, url |-> url, fileName |-> "",
     fileSize |-> 0, error |-> msg]

\* Summary as it would be with total taken from the request's urls
SummaryOfRequest(rs, total) ==
    [status |-> 200, results |-> rs, total |-> Len(urls),
     successful |-> CountSuccess(rs), failed |-> CountFailure(rs),
     message |-> ""]

\* res.status(200).json({results, summary}) of the batch handlers
Summary(rs, total) ==
    [status |-> 200, results |-> rs, total |-> total,
     successful |-> CountSuccess(rs), failed |-> CountFailure(rs),
     message |-> ""]

ErrorResp(code, msg) ==
    [status |-> code, results |-> <<>>, total |-> 0, successful |-> 0,
     failed |-> 0, message |-> msg]

\* ------------------------------------------------------------------- Init
MultipleUrls(n) == [p \in 1..n |-> UrlPool[((p - 1) % Len(UrlPool)) + 1]]

UrlSet == {UrlPool[j] : j \in 1..Len(UrlPool)}

VideoBatches == UNION {[1..n -> UrlSet] : n \in 1..MaxUrls}

NoOptions == [mcKind |-> "undefined", mcH |-> 0, maxSize |-> -1]

\* request bodies of the batch routes that are no array of 1..10 URLs
InvalidBatches ==
    {<<"missing", <<>>>>, <<"string", <<>>>>, <<"array", <<>>>>,
     <<"array", [i \in 1..(MaxUrlsPerRequest + 1) |-> UrlPool[2]]>>}
    \cup {<<"array", <<b>>>> : b \in InvalidUrls}
    \cup {<<"array", <<UrlPool[2], b>>>> : b \in InvalidUrls}

\* options.maxSize in MB; -1 stands for a body without the field
MaxSizeInputs == {-1, 200}

\* req.body.options of downloadMultiple: every maxConcurrent without a
\* maxSize, and a maxSize without a maxConcurrent
MultipleOptions ==
    {[mcKind |-> m.mcKind, mcH |-> m.mcH, maxSize |-> -1] : m \in McInputs}
    \cup {[mcKind |-> "undefined", mcH |-> 0, maxSize |-> z]
             : z \in MaxSizeInputs}

Init ==
    /\ handler \in Handlers
    /\ \/ /\ handler \in {"downloadMultiple", "batchDownloadVideos"}
          /\ \E b \in InvalidBatches : urlsKind = b[1] /\ urls = b[2]
          /\ options = NoOptions
          /\ extractAudio = FALSE
       \/ /\ handler = "downloadMultiple"
          /\ urlsKind = "array"
          /\ urls \in {MultipleUrls(n) : n \in 1..MaxUrls}
          /\ options \in MultipleOptions
          /\ extractAudio = FALSE
       \/ /\ handler = "batchDownloadVideos"
          /\ urlsKind = "array"
          /\ urls \in VideoBatches
          /\ options = NoOptions
          /\ extractAudio = FALSE
       \/ /\ handler = "downloadSingle"
          /\ urlsKind = "array"
          /\ urls \in {<<u>> : u \in UrlSet}
          /\ options = NoOptions
          /\ extractAudio = FALSE
       \/ /\ handler = "downloadVideo"
          /\ urlsKind = "array"
          /\ urls \in {<<u>> : u \in UrlSet}
          /\ options = NoOptions
          /\ extractAudio \in BOOLEAN
    /\ proc = "up"
    /\ phase = "received"
    /\ work = <<>>
    /\ cpc = [p \in Pos |-> "idle"]
    /\ rec = [p \in Pos |-> NoDoc]
    /\ db = [p \in Pos |-> NoDoc]
    /\ ipc = [p \in Pos |-> "idle"]
    /\ received = [p \in Pos |-> 0]
    /\ fileAt = [p \in Pos |-> "none"]
    /\ audio = "none"
    /\ cause = [p \in Pos |-> "none"]
    /\ itemRes = [p \in Pos |-> NoRes]
    /\ idx = 0
    /\ idxNaN = FALSE
    /\ win = {}
    /\ winNo = 0
    /\ launchWin = [p \in Pos |-> 0]
    /\ results = <<>>
    /\ resp = NoResp
    /\ calls = [p \in Pos |-> 0]
    /\ tried = [p \in Pos |-> <<>>]
    /\ left = [p \in Pos |-> {}]
    /\ fnIn = NoCall
    /\ fnOut = NotReturned
    /\ cwd = <<"backend">>
    /\ clock = 0
    /\ disk = [f \in FileIds |-> NoFile]
    /\ sweep = IdleSweep

loopVars == <<idx, idxNaN, win, winNo, launchWin>>
fetchVars == <<received, fileAt, audio>>

\* ---------------------------------------------- handlers: entry and create
\* the validate middleware of the route: with validation errors it
\* answers 400 and the handler is never called, else it calls next().
Validate ==
    /\ proc = "up" /\ phase = "received"
    /\ IF ValidationErrors
       THEN /\ resp' = ErrorResp(400, "errors")
            /\ phase' = "responded"
       ELSE /\ phase' = "start"
            /\ resp' = resp
    /\ UNCHANGED <<callVars, sweepVars, cause, calls, videoVars, reqVars,
                   proc, work, cpc, rec, db, ipc, fetchVars, itemRes,
                   loopVars, results>>

\* !urls || !Array.isArray(urls) || urls.length === 0
NoUrlArray == urlsKind # "array" \/ Len(urls) = 0

\* downloadMultiple up to its first await: without an array of URLs
\* AppError 400 is thrown, else the Download.create calls of
\* Promise.all(urls.map(...)) are all issued.
DownloadMultipleBegin ==
    /\ proc = "up" /\ phase = "start" /\ handler = "downloadMultiple"
    /\ IF NoUrlArray
       THEN /\ resp' = ErrorResp(400, "Please provide an array of URLs")
            /\ phase' = "responded"
            /\ UNCHANGED <<work, cpc>>
       ELSE /\ work' = urls
            /\ cpc' = [p \in Pos |-> IF p <= Len(urls) THEN "creating"
                                     ELSE "idle"]
            /\ phase' = "creating"
            /\ resp' = resp
    /\ UNCHANGED <<callVars, sweepVars, cause, calls, videoVars, reqVars,
                   proc, rec, db, ipc, fetchVars, itemRes, loopVars, results>>

\* batchDownloadVideos up to its first await: the social media URLs are
\* filtered out of urls and one create is issued for each of them.
BatchDownloadVideosBegin ==
    /\ proc = "up" /\ phase = "start" /\ handler = "batchDownloadVideos"
    /\ LET social == FilterSocial(urls)
       IN  IF NoUrlArray
           THEN /\ resp' = ErrorResp(400, "Please provide an array of URLs")
                /\ phase' = "responded"
                /\ UNCHANGED <<work, cpc>>
           ELSE IF Len(urls) > MaxVideoBatch
           THEN /\ resp' = ErrorResp(400, "Maximum 10 videos per batch")
                /\ phase' = "responded"
                /\ UNCHANGED <<work, cpc>>
           ELSE IF Len(social) = 0
           THEN /\ resp' = ErrorResp(400, "No valid social media URLs found")
                /\ phase' = "responded"
                /\ UNCHANGED <<work, cpc>>
           ELSE /\ work' = social
                /\ cpc' = [p \in Pos |-> IF p <= Len(social) THEN "creating"
                                         ELSE "idle"]
                /\ phase' = "creating"
                /\ resp' = resp
    /\ UNCHANGED <<callVars, sweepVars, cause, calls, videoVars, reqVars,
                   proc, rec, db, ipc, fetchVars, itemRes, loopVars, results>>

\* downloadSingle up to its first await: Download.create is issued.
DownloadSingleBegin ==
    /\ proc = "up" /\ phase = "start" /\ handler = "downloadSingle"
    /\ work' = urls
    /\ cpc' = [cpc EXCEPT ![1] = "creating"]
    /\ phase' = "creating"
    /\ UNCHANGED <<callVars, sweepVars, cause, calls, videoVars, reqVars,
                   proc, rec, db, ipc, fetchVars, itemRes, loopVars, results,
                   resp>>

\* downloadVideo up to its first await: a URL of no supported platform is
\* refused, else Download.create is issued.
DownloadVideoBegin ==
    /\ proc = "up" /\ phase = "start" /\ handler = "downloadVideo"
    /\ IF ~isSocialMediaUrl(Chars(urls[1])).isSocialMedia
       THEN /\ resp' = ErrorResp(400,
                   "URL is not from a supported social media platform")
            /\ phase' = "responded"
            /\ UNCHANGED <<work, cpc>>
       ELSE /\ work' = urls
            /\ cpc' = [cpc EXCEPT ![1] = "creating"]
            /\ phase' = "creating"
            /\ resp' = resp
    /\ UNCHANGED <<callVars, sweepVars, cause, calls, videoVars, reqVars,
                   proc, rec, db, ipc, fetchVars, itemRes, loopVars, results>>

\* The for loop of downloadMultiple from its test to the await of
\* Promise.all(batchPromises), entered with i, the results so far and the
\* documents and item states as they stand: either the window
\* urls.slice(i, i + maxDownloads) is launched (each callback of batch.map
\* runs up to its first await: status = 'downloading', save issued), or the
\* loop is left and the response is sent.
\* A loop that has entered MaxIter iterations is one whose i moves away from
\* urls.length: its windows are empty from then on and an iteration changes
\* nothing but i, so the iteration after number MaxIter is kept as number
\* MaxIter - 1 with the i of that one (LoopFolded).
LoopIteration(i, inan, rs, recNow, ipcNow) ==
    IF LoopCond(Len(work), i, inan)
    THEN LET w == SlicePositions(Len(work), i, maxDownloads)
             fold == winNo = MaxIter
         IN  /\ win' = w
             /\ winNo' = IF fold THEN winNo - 1 ELSE winNo + 1
             /\ launchWin' = [p \in Pos |-> IF p \in w THEN winNo + 1
                                            ELSE launchWin[p]]
             /\ rec' = [p \in Pos |->
                          IF p \in w
                          THEN [recNow[p] EXCEPT !.status = "downloading"]
                          ELSE recNow[p]]
             /\ ipc' = [p \in Pos |-> IF p \in w THEN "saveDl" ELSE ipcNow[p]]
             /\ phase' = "window"
             /\ idx' = IF fold THEN i - 2 * maxDownloads.h ELSE i
             /\ idxNaN' = inan
             /\ results' = rs
             /\ resp' = resp
    ELSE /\ resp' = Summary(rs, Len(rs))
         /\ phase' = "responded"
         /\ win' = {}
         /\ rec' = recNow
         /\ ipc' = ipcNow
         /\ idx' = i
         /\ idxNaN' = inan
         /\ results' = rs
         /\ UNCHANGED <<winNo, launchWin>>

\* the loop of batchDownloadVideos as it would be if every item were
\* started without awaiting the one before it
BatchIterationAllAtOnce(i, rs, recNow, ipcNow) ==
    IF i <= Len(work)
    THEN /\ rec' = [p \in Pos |->
                      IF p >= i /\ p <= Len(work) /\ ipcNow[p] = "idle"
                      THEN [recNow[p] EXCEPT !.status = "downloading"]
                      ELSE recNow[p]]
         /\ ipc' = [p \in Pos |->
                      IF p >= i /\ p <= Len(work) /\ ipcNow[p] = "idle"
                      THEN "saveDl" ELSE ipcNow[p]]
         /\ phase' = "item"
         /\ results' = rs
         /\ resp' = resp
    ELSE /\ resp' = Summary(rs, Len(work))
         /\ phase' = "responded"
         /\ rec' = recNow
         /\ ipc' = ipcNow
         /\ results' = rs

\* The for loop of batchDownloadVideos from its test to its first await,
\* entered with i (1-based position of the next item).
BatchIteration(i, rs, recNow, ipcNow) ==
    IF i <= Len(work)
    THEN /\ rec' = [recNow EXCEPT ![i].status = "downloading"]
         /\ ipc' = [ipcNow EXCEPT ![i] = "saveDl"]
         /\ phase' = "item"
         /\ results' = rs
         /\ resp' = resp
    ELSE /\ resp' = Summary(rs, Len(work))
         /\ phase' = "responded"
         /\ rec' = recNow
         /\ ipc' = ipcNow
         /\ results' = rs

\* LastCreate as it would be if the creates were not all awaited
LastCreateNotAwaited(p) == TRUE

\* await Promise.all(urls.map(url => Download.create(...))): the handler
\* goes on when the create that resolves now, for p, was the last one
\* outstanding.
LastCreate(p) == \A q \in 1..Len(work) : q # p => cpc[q] = "created"

\* WindowSettled as it would be if the window's promises were not awaited
WindowSettledNotAwaited == TRUE

\* await Promise.all(batchPromises): every callback of the window returned.
WindowSettled == \A p \in win : ipc[p] = "done"

\* A Download.create resolves: the document exists, in memory and in the
\* database.  When it is the last one the handler waits for, the handler
\* goes on to its download phase.
CreateResolve(p) ==
    /\ proc = "up" /\ cpc[p] = "creating"
    /\ cpc' = [cpc EXCEPT ![p] = "created"]
    /\ LET doc    == NewDoc(handler, work[p])
           recNow == [rec EXCEPT ![p] = doc]
           last   == phase = "creating" /\ LastCreate(p)
       IN  /\ db' = [db EXCEPT ![p] = doc]
           /\ IF ~last
              THEN /\ rec' = recNow
                   /\ UNCHANGED <<ipc, phase, loopVars, results, resp>>
              ELSE IF handler = "downloadMultiple"
              THEN LoopIteration(0, FALSE, <<>>, recNow, ipc)
              ELSE IF handler = "batchDownloadVideos"
              THEN BatchIteration(1, <<>>, recNow, ipc) /\ UNCHANGED loopVars
              ELSE /\ rec' = recNow
                   /\ ipc' = [ipc EXCEPT ![1] =
                                IF handler = "downloadSingle" THEN "request"
                                ELSE FirstStage(work[1])]
                   /\ phase' = "item"
                   /\ UNCHANGED <<loopVars, results, resp>>
    /\ tried' = IF phase = "creating" /\ LastCreate(p)
                   /\ handler = "downloadVideo"
                THEN [tried EXCEPT ![1] = <<FirstStrategy(work[1])>>]
                ELSE tried
    /\ UNCHANGED <<callVars, sweepVars, cause, calls, left, reqVars, proc,
                   work, fetchVars, itemRes>>

\* A Download.create rejects: Promise.all (or the await) rejects, the
\* handler's promise rejects and asyncHandler hands the error to
\* errorHandler; creates still in flight go on.
CreateReject(p) ==
    /\ proc = "up" /\ cpc[p] = "creating"
    /\ cpc' = [cpc EXCEPT ![p] = "createFailed"]
    /\ IF phase = "creating"
       THEN /\ phase' = "error"
            /\ resp' = ErrorResp(500, "Something went wrong!")
       ELSE UNCHANGED <<phase, resp>>
    /\ UNCHANGED <<callVars, sweepVars, cause, calls, videoVars, reqVars,
                   proc, work, rec, db, ipc, fetchVars, itemRes, loopVars,
                   results>>

\* Promise.all(batchPromises) of downloadMultiple resolves: the window's
\* results are pushed in window order, i += maxDownloads, next iteration.
WindowDone ==
    /\ proc = "up" /\ phase = "window" /\ handler = "downloadMultiple"
    /\ WindowSettled
    /\ LoopIteration(idx + maxDownloads.h, maxDownloads.nan,
                     results \o SeqOfSet(itemRes, win), rec, ipc)
    /\ UNCHANGED <<callVars, sweepVars, cause, calls, videoVars, reqVars,
                   proc, work, cpc, db, fetchVars, itemRes>>

\* ------------------------------------------------- record saves of an item
\* What the catch block of an item does with the error it caught:
\* status = 'failed', error = message, save issued.
CatchItem(p, msg) ==
    /\ rec' = [rec EXCEPT ![p] = Failed(rec[p], msg)]
    /\ ipc' = [ipc EXCEPT ![p] = "saveFail"]

\* What the try block does with the result of a download:
\* fileName, fileSize, status = 'completed', save issued.
CompleteItem(p, name, size) ==
    /\ rec' = [rec EXCEPT ![p] = Completed(rec[p], name, size)]
    /\ ipc' = [ipc EXCEPT ![p] = "saveOk"]

\* record.save() after status = 'downloading' resolves; the download is
\* called: downloadFile runs up to its axios await, or
\* VideoDownloader.downloadVideo starts.
SaveDownloadingResolve(p) ==
    /\ proc = "up" /\ ipc[p] = "saveDl"
    /\ db' = [db EXCEPT ![p] = rec[p]]
    /\ ipc' = [ipc EXCEPT ![p] = IF handler = "downloadMultiple"
                                 THEN "request" ELSE FirstStage(work[p])]
    /\ tried' = IF handler = "downloadMultiple" THEN tried
                ELSE [tried EXCEPT ![p] = <<FirstStrategy(work[p])>>]
    /\ calls' = IF handler = "downloadMultiple"
                THEN [calls EXCEPT ![p] = @ + 1] ELSE calls
    /\ received' = [received EXCEPT ![p] = 0]
    /\ UNCHANGED <<callVars, sweepVars, cause, left, reqVars, proc, phase,
                   work, cpc, rec, fileAt, audio, itemRes, loopVars, results,
                   resp>>

\* record.save() after status = 'downloading' rejects: the catch block runs.
SaveDownloadingReject(p) ==
    /\ proc = "up" /\ ipc[p] = "saveDl"
    /\ CatchItem(p, "save failed")
    /\ UNCHANGED <<callVars, sweepVars, cause, calls, videoVars, reqVars,
                   proc, phase, work, cpc, db, fetchVars, itemRes, loopVars,
                   results, resp>>

\* record.save() after status = 'completed' resolves in downloadMultiple:
\* the callback returns the item's success entry.
SaveCompletedResolveMultiple(p) ==
    /\ proc = "up" /\ ipc[p] = "saveOk" /\ handler = "downloadMultiple"
    /\ db' = [db EXCEPT ![p] = rec[p]]
    /\ itemRes' = [itemRes EXCEPT ![p] =
                     SuccessRes(work[p], rec[p].fileName, rec[p].fileSize)]
    /\ ipc' = [ipc EXCEPT ![p] = "done"]
    /\ UNCHANGED <<callVars, sweepVars, cause, calls, videoVars, reqVars,
                   proc, phase, work, cpc, rec, fetchVars, loopVars, results,
                   resp>>

\* ... in batchDownloadVideos: fs.unlink(result.filePath) is awaited next.
SaveCompletedResolveBatch(p) ==
    /\ proc = "up" /\ ipc[p] = "saveOk" /\ handler = "batchDownloadVideos"
    /\ db' = [db EXCEPT ![p] = rec[p]]
    /\ ipc' = [ipc EXCEPT ![p] = "unlink"]
    /\ UNCHANGED <<callVars, sweepVars, cause, calls, videoVars, reqVars,
                   proc, phase, work, cpc, rec, fetchVars, itemRes, loopVars,
                   results, resp>>

\* fs.unlink(result.filePath).catch(() => {}) of batchDownloadVideos
\* settles: the success entry is pushed and the loop goes on.
UnlinkBatchFile(p) ==
    /\ proc = "up" /\ ipc[p] = "unlink" /\ handler = "batchDownloadVideos"
    /\ \E removed \in BOOLEAN :
         fileAt' = [fileAt EXCEPT ![p] = IF removed THEN "none" ELSE @]
    /\ BatchIteration(p + 1,
                      Append(results, SuccessRes(work[p], rec[p].fileName,
                                                 rec[p].fileSize)),
                      rec, [ipc EXCEPT ![p] = "done"])
    /\ UNCHANGED <<callVars, sweepVars, cause, calls, videoVars, reqVars,
                   proc, work, cpc, db, received, audio, itemRes, loopVars>>

\* ... in downloadSingle: res.download starts sending the file.
SaveCompletedResolveSingle(p) ==
    /\ proc = "up" /\ ipc[p] = "saveOk" /\ handler = "downloadSingle"
    /\ db' = [db EXCEPT ![p] = rec[p]]
    /\ ipc' = [ipc EXCEPT ![p] = "done"]
    /\ phase' = "sending"
    /\ resp' = [NoResp EXCEPT !.status = 200]
    /\ UNCHANGED <<callVars, sweepVars, cause, calls, videoVars, reqVars,
                   proc, work, cpc, rec, fetchVars, itemRes, loopVars,
                   results>>

\* the callback of res.download: the file was sent or sending failed, and
\* fs.unlink(result.filePath) is tried either way.
SendFileCallback ==
    /\ proc = "up" /\ phase = "sending"
    /\ \E removed \in BOOLEAN :
         fileAt' = [fileAt EXCEPT ![1] = IF removed THEN "none" ELSE @]
    /\ phase' = "responded"
    /\ UNCHANGED <<callVars, sweepVars, cause, calls, videoVars, reqVars,
                   proc, work, cpc, rec, db, ipc, received, audio, itemRes,
                   loopVars, results, resp>>

\* ... in downloadVideo: the headers are set and fs.createReadStream is
\* called on the fs/promises module, which has no such function: the
\* TypeError lands in the catch block of the same handler.
SaveCompletedResolveVideo(p) ==
    /\ proc = "up" /\ ipc[p] = "saveOk" /\ handler = "downloadVideo"
    /\ db' = [db EXCEPT ![p] = rec[p]]
    /\ CatchItem(p, IF extractAudio
                     THEN "Invalid value for header Content-Length"
                     ELSE "fs.createReadStream is not a function")
    /\ UNCHANGED <<callVars, sweepVars, cause, calls, videoVars, reqVars,
                   proc, phase, work, cpc, fetchVars, itemRes, loopVars,
                   results, resp>>

\* record.save() after status = 'completed' rejects: the catch block runs.
SaveCompletedReject(p) ==
    /\ proc = "up" /\ ipc[p] = "saveOk"
    /\ CatchItem(p, "save failed")
    /\ UNCHANGED <<callVars, sweepVars, cause, calls, videoVars, reqVars,
                   proc, phase, work, cpc, db, fetchVars, itemRes, loopVars,
                   results, resp>>

\* record.save() in the catch block resolves in downloadMultiple: the
\* callback returns the item's failure entry.
SaveFailedResolveMultiple(p) ==
    /\ proc = "up" /\ ipc[p] = "saveFail" /\ handler = "downloadMultiple"
    /\ db' = [db EXCEPT ![p] = rec[p]]
    /\ itemRes' = [itemRes EXCEPT ![p] = FailureRes(work[p], rec[p].error)]
    /\ ipc' = [ipc EXCEPT ![p] = "done"]
    /\ UNCHANGED <<callVars, sweepVars, cause, calls, videoVars, reqVars,
                   proc, phase, work, cpc, rec, fetchVars, loopVars, results,
                   resp>>

\* ... in batchDownloadVideos: the failure entry is pushed, the loop goes on.
SaveFailedResolveBatch(p) ==
    /\ proc = "up" /\ ipc[p] = "saveFail" /\ handler = "batchDownloadVideos"
    /\ db' = [db EXCEPT ![p] = rec[p]]
    /\ BatchIteration(p + 1,
                      Append(results, FailureRes(work[p], rec[p].error)),
                      rec, [ipc EXCEPT ![p] = "done"])
    /\ UNCHANGED <<callVars, sweepVars, cause, calls, videoVars, reqVars,
                   proc, work, cpc, fetchVars, itemRes, loopVars>>

\* ... in downloadSingle and downloadVideo: AppError(..., 400) is thrown.
SaveFailedResolveSingle(p) ==
    /\ proc = "up" /\ ipc[p] = "saveFail"
    /\ handler \in {"downloadSingle", "downloadVideo"}
    /\ db' = [db EXCEPT ![p] = rec[p]]
    /\ ipc' = [ipc EXCEPT ![p] = "done"]
    /\ phase' = "responded"
    /\ resp' = ErrorResp(400, rec[p].error)
    /\ UNCHANGED <<callVars, sweepVars, cause, calls, videoVars, reqVars,
                   proc, work, cpc, rec, fetchVars, itemRes, loopVars,
                   results>>

\* record.save() in the catch block rejects: nothing catches it.  The
\* item's promise rejects; the handler that awaits it (Promise.all of the
\* window, or the handler's own body) rejects and errorHandler answers.
SaveFailedReject(p) ==
    /\ proc = "up" /\ ipc[p] = "saveFail"
    /\ ipc' = [ipc EXCEPT ![p] = "rejected"]
    /\ IF phase \in {"window", "item"}
       THEN /\ phase' = "error"
            /\ resp' = ErrorResp(500, "Something went wrong!")
       ELSE UNCHANGED <<phase, resp>>
    /\ UNCHANGED <<callVars, sweepVars, cause, calls, videoVars, reqVars,
                   proc, work, cpc, rec, db, fetchVars, itemRes, loopVars,
                   results>>

\* ------------------------------------------------------------ downloadFile
\* received[p] is the local fileSize of the call in flight for p; it is 0
\* again once the call has returned or thrown.
\* The axios call rejects (timeout, DNS failure, or a status other than
\* 200, which validateStatus turns into a rejection).  downloadFile's catch
\* block unlinks tempPath, which was never created, and rethrows with the
\* enhanced message; the caller's catch block receives it.
RequestRejects(p) ==
    /\ proc = "up" /\ ipc[p] = "request"
    /\ \E code \in RequestErrors :
         /\ CatchItem(p, EnhancedMessage(code))
         /\ cause' = [cause EXCEPT ![p] = code]
    /\ UNCHANGED <<callVars, sweepVars, calls, videoVars, reqVars, proc,
                   phase, work, cpc, db, fetchVars, itemRes, loopVars,
                   results, resp>>

\* ResponseArrives as it would be if createWriteStream(tempPath) were called
\* before the headers are checked
ResponseArrivesWriterFirst(p) ==
    /\ proc = "up" /\ ipc[p] = "request"
    /\ fileAt' = [fileAt EXCEPT ![p] = "temp"]
    /\ \E contentType \in ContentTypes, contentLength \in ContentLengths :
         IF ~isSupportedFileType(contentType)
         THEN /\ CatchItem(p, "Unsupported file type")
              /\ cause' = [cause EXCEPT ![p] = "type"]
         ELSE IF contentLength # -1 /\ contentLength # 0
                 /\ contentLength > maxSize
         THEN /\ CatchItem(p, "File size exceeds limit of "
                              \o ToString(maxSize) \o "MB")
              /\ cause' = [cause EXCEPT ![p] = "declaredSize"]
         ELSE /\ ipc' = [ipc EXCEPT ![p] = "stream"]
              /\ rec' = rec
              /\ cause' = cause
    /\ UNCHANGED <<callVars, sweepVars, calls, videoVars, reqVars, proc,
                   phase, work, cpc, db, received, audio, itemRes, loopVars,
                   results, resp>>

\* The axios call resolves with status 200 and the response headers.  An
\* unsupported content type or a declared content-length above maxSize
\* throws before any file is opened; otherwise createWriteStream(tempPath)
\* opens the temp file, the 'data' listener is attached and the pipeline
\* is awaited.
ResponseArrives(p) ==
    /\ proc = "up" /\ ipc[p] = "request"
    /\ \E contentType \in ContentTypes, contentLength \in ContentLengths :
         IF ~isSupportedFileType(contentType)
         THEN /\ CatchItem(p, "Unsupported file type")
              /\ cause' = [cause EXCEPT ![p] = "type"]
              /\ UNCHANGED fileAt
         ELSE IF contentLength # -1 /\ contentLength # 0
                 /\ contentLength > maxSize
         THEN /\ CatchItem(p, "File size exceeds limit of "
                              \o ToString(maxSize) \o "MB")
              /\ cause' = [cause EXCEPT ![p] = "declaredSize"]
              /\ UNCHANGED fileAt
         ELSE /\ fileAt' = [fileAt EXCEPT ![p] = "temp"]
              /\ ipc' = [ipc EXCEPT ![p] = "stream"]
              /\ rec' = rec
              /\ cause' = cause
    /\ UNCHANGED <<callVars, sweepVars, calls, videoVars, reqVars, proc,
                   phase, work, cpc, db, received, audio, itemRes, loopVars,
                   results, resp>>

\* The 'data' listener of downloadFile on one chunk: fileSize grows; above
\* maxSize both streams are destroyed and the listener throws.  The throw
\* leaves an event listener, not the async function: it is an uncaught
\* exception, and the process's uncaughtException handler exits.
DataChunk(p) ==
    /\ proc = "up" /\ ipc[p] = "stream"
    /\ received[p] <= maxSize
    /\ \E chunk \in ChunkSizes :
         /\ received' = [received EXCEPT ![p] = @ + chunk]
         /\ proc' = IF received[p] + chunk > maxSize THEN "exited" ELSE proc
         /\ cause' = IF received[p] + chunk > maxSize
                     THEN [cause EXCEPT ![p] = "streamedSize"] ELSE cause
    /\ UNCHANGED <<callVars, sweepVars, calls, videoVars, reqVars, phase,
                   work, cpc, rec, db, ipc, fileAt, audio, itemRes, loopVars,
                   results, resp>>

\* pipeline(response.data, writer) resolves: the final name is computed and
\* fs.rename(tempPath, finalPath) is awaited.
StreamEnd(p) ==
    /\ proc = "up" /\ ipc[p] = "stream"
    /\ ipc' = [ipc EXCEPT ![p] = "rename"]
    /\ UNCHANGED <<callVars, sweepVars, cause, calls, videoVars, reqVars,
                   proc, phase, work, cpc, rec, db, fetchVars, itemRes,
                   loopVars, results, resp>>

\* pipeline rejects (the connection or the write failed): downloadFile's
\* catch block unlinks tempPath, ignoring a failure of the unlink, and
\* rethrows; the caller's catch block receives the error.
StreamError(p) ==
    /\ proc = "up" /\ ipc[p] = "stream"
    /\ \E removed \in BOOLEAN :
         fileAt' = [fileAt EXCEPT ![p] = IF removed THEN "none" ELSE @]
    /\ CatchItem(p, "aborted")
    /\ cause' = [cause EXCEPT ![p] = "pipeline"]
    /\ received' = [received EXCEPT ![p] = 0]
    /\ UNCHANGED <<callVars, sweepVars, calls, videoVars, reqVars, proc,
                   phase, work, cpc, db, audio, itemRes, loopVars, results,
                   resp>>

\* fs.rename resolves: downloadFile returns its result and the caller's
\* try block records it.
RenameResolve(p) ==
    /\ proc = "up" /\ ipc[p] = "rename"
    /\ fileAt' = [fileAt EXCEPT ![p] = "final"]
    /\ CompleteItem(p, finalFileName(work[p]), received[p])
    /\ received' = [received EXCEPT ![p] = 0]
    /\ UNCHANGED <<callVars, sweepVars, cause, calls, videoVars, reqVars,
                   proc, phase, work, cpc, db, audio, itemRes, loopVars,
                   results, resp>>

\* fs.rename rejects: as for a failed pipeline.
RenameReject(p) ==
    /\ proc = "up" /\ ipc[p] = "rename"
    /\ \E removed \in BOOLEAN :
         fileAt' = [fileAt EXCEPT ![p] = IF removed THEN "none" ELSE @]
    /\ CatchItem(p, "rename failed")
    /\ cause' = [cause EXCEPT ![p] = "rename"]
    /\ received' = [received EXCEPT ![p] = 0]
    /\ UNCHANGED <<callVars, sweepVars, calls, videoVars, reqVars, proc,
                   phase, work, cpc, db, audio, itemRes, loopVars, results,
                   resp>>

\* ------------------------------------------- VideoDownloader.downloadVideo
\* stats.size of the downloaded video, in MB
VideoSizes == {50, 150}

\* VideoDownloader.downloadVideo resolves with the file its last strategy
\* wrote.  downloadVideo with extractAudio goes on to extractAudio, every
\* other caller records the result.
VideoDownloadResolve(p, by, size) ==
    /\ fileAt' = [fileAt EXCEPT ![p] = "final"]
    /\ left' = [left EXCEPT ![p] = @ \ {by}]
    /\ received' = [received EXCEPT ![p] = size]
    /\ IF handler = "downloadVideo" /\ extractAudio
       THEN ipc' = [ipc EXCEPT ![p] = "extract"] /\ rec' = rec
       ELSE CompleteItem(p, "video.mp4", size)

\* VideoDownloader.downloadVideo rejects with the error of
\* downloadWithYtdlp; the caller's catch block receives it.
VideoDownloadReject(p) == CatchItem(p, "Video download failed")

\* the catch block of downloadVideo after downloadYouTubeVideo has thrown:
\* downloadWithYtdlp is called and runs up to its await of ytdlp.exec.
Fallback(p) ==
    /\ ipc' = [ipc EXCEPT ![p] = "dlpExec"]
    /\ tried' = [tried EXCEPT ![p] = Append(@, "ytdlp")]

\* ytdl.getInfo resolves.  Without a suitable format downloadYouTubeVideo
\* throws; otherwise createWriteStream(filePath) opens the output file and
\* the pipeline is awaited.
YtInfoResolve(p) ==
    /\ proc = "up" /\ ipc[p] = "ytInfo"
    /\ \E chosenFormat \in BOOLEAN :
         IF chosenFormat
         THEN /\ ipc' = [ipc EXCEPT ![p] = "ytPipe"]
              /\ left' = [left EXCEPT ![p] = @ \cup {"ytdl"}]
              /\ tried' = tried
         ELSE Fallback(p) /\ left' = left
    /\ UNCHANGED <<callVars, sweepVars, cause, calls, reqVars, proc, phase,
                   work, cpc, rec, db, fetchVars, itemRes, loopVars, results,
                   resp>>

\* pipeline(videoStream, writeStream) resolves: fs.stat is awaited.
YtPipeResolve(p) ==
    /\ proc = "up" /\ ipc[p] = "ytPipe"
    /\ ipc' = [ipc EXCEPT ![p] = "ytStat"]
    /\ UNCHANGED <<callVars, sweepVars, cause, calls, videoVars, reqVars,
                   proc, phase, work, cpc, rec, db, fetchVars, itemRes,
                   loopVars, results, resp>>

\* fs.stat resolves: downloadYouTubeVideo returns, and so does
\* downloadVideo.
YtStatResolve(p) ==
    /\ proc = "up" /\ ipc[p] = "ytStat"
    /\ \E size \in VideoSizes : VideoDownloadResolve(p, "ytdl", size)
    /\ UNCHANGED <<callVars, sweepVars, cause, calls, tried, reqVars, proc,
                   phase, work, cpc, db, audio, itemRes, loopVars, results,
                   resp>>

\* an await of downloadYouTubeVideo rejects (getInfo, the pipeline or
\* fs.stat): its catch block rethrows, whatever was written stays where it
\* is, and downloadVideo falls back to downloadWithYtdlp.
YoutubeAwaitRejects(p) ==
    /\ proc = "up" /\ ipc[p] \in {"ytInfo", "ytPipe", "ytStat"}
    /\ Fallback(p)
    /\ UNCHANGED <<callVars, sweepVars, cause, calls, left, reqVars, proc,
                   phase, work, cpc, rec, db, fetchVars, itemRes, loopVars,
                   results, resp>>

\* ytdlp.exec resolves, with or without an output file named after
\* tempId; fs.readdir is awaited.
DlpExecResolve(p) ==
    /\ proc = "up" /\ ipc[p] = "dlpExec"
    /\ \E written \in BOOLEAN :
         left' = [left EXCEPT ![p] = IF written THEN @ \cup {"ytdlp"} ELSE @]
    /\ ipc' = [ipc EXCEPT ![p] = "dlpReaddir"]
    /\ UNCHANGED <<callVars, sweepVars, cause, calls, tried, reqVars, proc,
                   phase, work, cpc, rec, db, fetchVars, itemRes, loopVars,
                   results, resp>>

\* ytdlp.exec rejects, possibly after writing part of the output (--no-part
\* writes to the output name itself): downloadWithYtdlp rethrows.
DlpExecReject(p) ==
    /\ proc = "up" /\ ipc[p] = "dlpExec"
    /\ \E written \in BOOLEAN :
         left' = [left EXCEPT ![p] = IF written THEN @ \cup {"ytdlp"} ELSE @]
    /\ VideoDownloadReject(p)
    /\ UNCHANGED <<callVars, sweepVars, cause, calls, tried, reqVars, proc,
                   phase, work, cpc, db, fetchVars, itemRes, loopVars,
                   results, resp>>

\* fs.readdir resolves: without a file that starts with tempId
\* 'Downloaded file not found' is thrown, else fs.stat is awaited.
DlpReaddirResolve(p) ==
    /\ proc = "up" /\ ipc[p] = "dlpReaddir"
    /\ IF "ytdlp" \in left[p]
       THEN ipc' = [ipc EXCEPT ![p] = "dlpStat"] /\ rec' = rec
       ELSE VideoDownloadReject(p)
    /\ UNCHANGED <<callVars, sweepVars, cause, calls, videoVars, reqVars,
                   proc, phase, work, cpc, db, fetchVars, itemRes, loopVars,
                   results, resp>>

\* fs.stat resolves: a file above maxFileSize is unlinked (awaited) before
\* the throw; otherwise getVideoInfo is awaited.
DlpStatResolve(p) ==
    /\ proc = "up" /\ ipc[p] = "dlpStat"
    /\ \E size \in VideoSizes :
         /\ received' = [received EXCEPT ![p] = size]
         /\ ipc' = [ipc EXCEPT ![p] = IF size > MAX_FILE_SIZE
                                      THEN "dlpUnlink" ELSE "dlpInfo"]
    /\ UNCHANGED <<callVars, sweepVars, cause, calls, videoVars, reqVars,
                   proc, phase, work, cpc, rec, db, fileAt, audio, itemRes,
                   loopVars, results, resp>>

\* fs.unlink of the oversized file resolves: the size error is thrown.
DlpUnlinkResolve(p) ==
    /\ proc = "up" /\ ipc[p] = "dlpUnlink"
    /\ left' = [left EXCEPT ![p] = @ \ {"ytdlp"}]
    /\ VideoDownloadReject(p)
    /\ UNCHANGED <<callVars, sweepVars, cause, calls, tried, reqVars, proc,
                   phase, work, cpc, db, fetchVars, itemRes, loopVars,
                   results, resp>>

\* getVideoInfo resolves: the file is renamed if its path is not the
\* final one yet (awaited), else downloadWithYtdlp returns.
DlpInfoResolve(p) ==
    /\ proc = "up" /\ ipc[p] = "dlpInfo"
    /\ \E samePath \in BOOLEAN :
         IF samePath
         THEN VideoDownloadResolve(p, "ytdlp", received[p])
         ELSE /\ ipc' = [ipc EXCEPT ![p] = "dlpRename"]
              /\ UNCHANGED <<rec, left, received, fileAt>>
    /\ UNCHANGED <<callVars, sweepVars, cause, calls, tried, reqVars, proc,
                   phase, work, cpc, db, audio, itemRes, loopVars, results,
                   resp>>

\* fs.rename resolves: downloadWithYtdlp returns.
DlpRenameResolve(p) ==
    /\ proc = "up" /\ ipc[p] = "dlpRename"
    /\ VideoDownloadResolve(p, "ytdlp", received[p])
    /\ UNCHANGED <<callVars, sweepVars, cause, calls, tried, reqVars, proc,
                   phase, work, cpc, db, audio, itemRes, loopVars, results,
                   resp>>

\* an await of downloadWithYtdlp after ytdlp.exec rejects (readdir, stat,
\* unlink, getVideoInfo or rename): the catch block logs and rethrows;
\* the file ytdlp wrote stays where it is.
YtdlpAwaitRejects(p) ==
    /\ proc = "up"
    /\ ipc[p] \in {"dlpReaddir", "dlpStat", "dlpUnlink", "dlpInfo",
                   "dlpRename"}
    /\ VideoDownloadReject(p)
    /\ UNCHANGED <<callVars, sweepVars, cause, calls, videoVars, reqVars,
                   proc, phase, work, cpc, db, fetchVars, itemRes, loopVars,
                   results, resp>>

\* VideoDownloader.extractAudio resolves: the audio file is written and
\* fs.unlink(videoResult.filePath) is awaited.
ExtractAudioResolve(p) ==
    /\ proc = "up" /\ ipc[p] = "extract"
    /\ audio' = "file"
    /\ ipc' = [ipc EXCEPT ![p] = "unlinkVideo"]
    /\ UNCHANGED <<callVars, sweepVars, cause, calls, videoVars, reqVars,
                   proc, phase, work, cpc, rec, db, received, fileAt, itemRes,
                   loopVars, results, resp>>

\* VideoDownloader.extractAudio rejects: the catch block of downloadVideo.
ExtractAudioReject(p) ==
    /\ proc = "up" /\ ipc[p] = "extract"
    /\ CatchItem(p, "Audio extraction failed")
    /\ UNCHANGED <<callVars, sweepVars, cause, calls, videoVars, reqVars,
                   proc, phase, work, cpc, db, fetchVars, itemRes, loopVars,
                   results, resp>>

\* fs.unlink(videoResult.filePath).catch(() => {}) settles; the result of
\* extractAudio, which has no fileSize, is recorded.
UnlinkVideoFile(p) ==
    /\ proc = "up" /\ ipc[p] = "unlinkVideo"
    /\ \E removed \in BOOLEAN :
         fileAt' = [fileAt EXCEPT ![p] = IF removed THEN "none" ELSE @]
    /\ CompleteItem(p, "audio.mp4", 0)
    /\ UNCHANGED <<callVars, sweepVars, cause, calls, videoVars, reqVars,
                   proc, phase, work, cpc, db, received, audio, itemRes,
                   loopVars, results, resp>>

\* ------------------------------------------------------------------- Next
Next ==
    \/ Validate
    \/ DownloadMultipleBegin
    \/ BatchDownloadVideosBegin
    \/ DownloadSingleBegin
    \/ DownloadVideoBegin
    \/ WindowDone
    \/ SendFileCallback
    \/ \E p \in Pos : CreateResolve(p)
    \/ \E p \in Pos : CreateReject(p)
    \/ \E p \in Pos : SaveDownloadingResolve(p)
    \/ \E p \in Pos : SaveDownloadingReject(p)
    \/ \E p \in Pos : SaveCompletedResolveMultiple(p)
    \/ \E p \in Pos : SaveCompletedResolveBatch(p)
    \/ \E p \in Pos : UnlinkBatchFile(p)
    \/ \E p \in Pos : SaveCompletedResolveSingle(p)
    \/ \E p \in Pos : SaveCompletedResolveVideo(p)
    \/ \E p \in Pos : SaveCompletedReject(p)
    \/ \E p \in Pos : SaveFailedResolveMultiple(p)
    \/ \E p \in Pos : SaveFailedResolveBatch(p)
    \/ \E p \in Pos : SaveFailedResolveSingle(p)
    \/ \E p \in Pos : SaveFailedReject(p)
    \/ \E p \in Pos : RequestRejects(p)
    \/ \E p \in Pos : ResponseArrives(p)
    \/ \E p \in Pos : DataChunk(p)
    \/ \E p \in Pos : StreamEnd(p)
    \/ \E p \in Pos : StreamError(p)
    \/ \E p \in Pos : RenameResolve(p)
    \/ \E p \in Pos : RenameReject(p)
    \/ \E p \in Pos : YtInfoResolve(p)
    \/ \E p \in Pos : YtPipeResolve(p)
    \/ \E p \in Pos : YtStatResolve(p)
    \/ \E p \in Pos : YoutubeAwaitRejects(p)
    \/ \E p \in Pos : DlpExecResolve(p)
    \/ \E p \in Pos : DlpExecReject(p)
    \/ \E p \in Pos : DlpReaddirResolve(p)
    \/ \E p \in Pos : DlpStatResolve(p)
    \/ \E p \in Pos : DlpUnlinkResolve(p)
    \/ \E p \in Pos : DlpInfoResolve(p)
    \/ \E p \in Pos : DlpRenameResolve(p)
    \/ \E p \in Pos : YtdlpAwaitRejects(p)
    \/ \E p \in Pos : ExtractAudioResolve(p)
    \/ \E p \in Pos : ExtractAudioReject(p)
    \/ \E p \in Pos : UnlinkVideoFile(p)

Spec == Init /\ [][Next]_vars

\* what can happen next to item p of downloadMultiple: the promise it
\* awaits settles
ItemSettles(p) ==
    /\ handler = "downloadMultiple"
    /\ \/ SaveDownloadingResolve(p)
       \/ SaveDownloadingReject(p)
       \/ RequestRejects(p)
       \/ ResponseArrives(p)
       \/ DataChunk(p)
       \/ StreamEnd(p)
       \/ StreamError(p)
       \/ RenameResolve(p)
       \/ RenameReject(p)
       \/ SaveCompletedResolveMultiple(p)
       \/ SaveCompletedReject(p)
       \/ SaveFailedResolveMultiple(p)
       \/ SaveFailedReject(p)

\* every promise downloadMultiple waits for settles
FairSpec ==
    /\ Spec
    /\ WF_vars(WindowDone)
    /\ \A p \in Pos : WF_vars(ItemSettles(p))

\* ------------------------------------------ helper functions on their own
\* every domain of supportedPlatforms
ListedDomains ==
    UNION {{supportedPlatforms[k].domains[j]
              : j \in 1..Len(supportedPlatforms[k].domains)}
             : k \in 1..Len(supportedPlatforms)}

\* hosts of no platform; two of them contain a listed domain as a substring
OtherDomains ==
    {<<"e", "x", "a", "m", "p", "l", "e", ".", "c", "o", "m">>,
     <<"n", "e", "t", "f", "l", "i", "x", ".", "c", "o", "m">>,
     <<"m", "i", "c", "r", "o", "s", "o", "f", "t", ".", "c", "o", "m">>}

HostPrefixes == {<<>>, <<"w", "w", "w", ".">>, <<"m", ".">>, <<"e", "v", "i", "l">>}

UrlPaths == {<<>>, <<"/", "w", "a", "t", "c", "h", "?", "v", "=", "e", "v", "i", "l", "-", "i", "n", "s", "t", "a", "g", "r", "a", "m", ".", "c", "o", "m">>}

\* strings new URL() does not parse
MalformedUrls ==
    {<<>>, <<"n", "o", "t", " ", "a", " ", "u", "r", "l">>, <<"y", "o", "u", "t", "u", "b", "e", ".", "c", "o", "m", "/", "w", "a", "t", "c", "h">>,
     <<"h", "t", "t", "p", "s", ":", "/", "/">>}

\* the arguments isSocialMediaUrl is called with
ClassifierUrls ==
    {<<"h", "t", "t", "p", "s", ":", "/", "/">> \o pre \o d \o path
       : pre \in HostPrefixes, d \in ListedDomains \cup OtherDomains,
         path \in UrlPaths}
    \cup {<<"h", "t", "t", "p", "s", ":", "/", "/", "Y", "o", "u", "T", "u", "b", "e", ".", "c", "o", "m", "/", "w", "a", "t", "c", "h">>}
    \cup MalformedUrls

\* the arguments and headers the file name of a download is derived from
FileNameUrls ==
    {<<"h", "t", "t", "p", "s", ":", "/", "/", "e", "x", "a", "m", "p", "l", "e", ".", "c", "o", "m", "/", "a", ".", "p", "d", "f">>,
     <<"h", "t", "t", "p", "s", ":", "/", "/", "e", "x", "a", "m", "p", "l", "e", ".", "c", "o", "m", "/", "f", "i", "l", "e", "s", "/", "r", "e", "p", "o", "r", "t">>,
     <<"h", "t", "t", "p", "s", ":", "/", "/", "e", "x", "a", "m", "p", "l", "e", ".", "c", "o", "m", "/">>}

CustomFileNames ==
    {<<>>, <<"m", "y", ".", "t", "x", "t">>, <<"n", "o", "t", "e", "s">>,
     <<"a", "/", "b", ".", "t", "x", "t">>,
     <<".", ".", "/", ".", ".", "/", ".", ".", "/", "x", ".", "t", "x", "t">>}

ContentDispositions ==
    {NoHeader, [present |-> TRUE, filename |-> <<>>],
     [present |-> TRUE, filename |-> <<"h", ".", "p", "n", "g">>],
     [present |-> TRUE, filename |-> <<"a", "/", "b", ".", "t", "x", "t">>]}

HeaderContentTypes == {<<>>, <<"a", "p", "p", "l", "i", "c", "a", "t", "i", "o", "n", "/", "p", "d", "f">>}

FileNameCalls ==
    {[fn |-> "downloadFile", url |-> u, customFileName |-> c,
      contentDisposition |-> d, contentType |-> t]
       : u \in FileNameUrls, c \in CustomFileNames,
         d \in ContentDispositions, t \in HeaderContentTypes}

\* no request is being served
NoRequest ==
    /\ handler = "none"
    /\ urls = <<>>
    /\ urlsKind = "missing"
    /\ options = NoOptions
    /\ extractAudio = FALSE
    /\ proc = "up"
    /\ phase = "start"
    /\ work = <<>>
    /\ cpc = [p \in Pos |-> "idle"]
    /\ rec = [p \in Pos |-> NoDoc]
    /\ db = [p \in Pos |-> NoDoc]
    /\ ipc = [p \in Pos |-> "idle"]
    /\ received = [p \in Pos |-> 0]
    /\ fileAt = [p \in Pos |-> "none"]
    /\ audio = "none"
    /\ cause = [p \in Pos |-> "none"]
    /\ itemRes = [p \in Pos |-> NoRes]
    /\ idx = 0
    /\ idxNaN = FALSE
    /\ win = {}
    /\ winNo = 0
    /\ launchWin = [p \in Pos |-> 0]
    /\ results = <<>>
    /\ resp = NoResp
    /\ calls = [p \in Pos |-> 0]
    /\ tried = [p \in Pos |-> <<>>]
    /\ left = [p \in Pos |-> {}]

\* errors that reach the error middleware: the AppErrors the handlers
\* throw, and errors of the libraries below them
ThrownErrors ==
    {AppError("Invalid credentials", 401),
     AppError("Download record not found", 404),
     AppError("Download failed: Download timeout", 400),
     OtherError("connect ECONNREFUSED 10.0.0.5:27017", 0),
     OtherError("Unexpected token } in JSON at position 12", 400),
     OtherError("request entity too large", 413),
     OtherError("Cannot read properties of undefined", 0)}

NodeEnvs == {"development", "production", "test", "undefined"}

ErrorHandlerCalls ==
    {[fn |-> "errorHandler", err |-> e, env |-> v]
       : e \in ThrownErrors, v \in NodeEnvs}

\* a helper function is about to be called on arguments of its own
FnInit ==
    /\ fnIn \in {[fn |-> "isSocialMediaUrl", url |-> u] : u \in ClassifierUrls}
                \cup FileNameCalls \cup ErrorHandlerCalls
    /\ fnOut = NotReturned
    /\ NoRequest
    /\ cwd = <<"backend">>
    /\ clock = 0
    /\ disk = [f \in FileIds |-> NoFile]
    /\ sweep = IdleSweep

mainVars == <<cause, calls, videoVars, reqVars, proc, phase, work, cpc, rec, db, ipc, fetchVars,
              itemRes, loopVars, results, resp>>

\* VideoDownloader.isSocialMediaUrl(url) is called and returns
CallIsSocialMediaUrl ==
    /\ fnIn.fn = "isSocialMediaUrl" /\ ~fnOut.done
    /\ fnOut' = [done |-> TRUE, val |-> isSocialMediaUrl(fnIn.url)]
    /\ UNCHANGED <<fnIn, sweepVars, mainVars>>

\* downloadFile derives its final file name and renames the temp file to
\* it: the rename resolves or rejects
CallFileName ==
    /\ fnIn.fn = "downloadFile" /\ ~fnOut.done
    /\ LET returned ==
               returnedFileName(fnIn.url, fnIn.customFileName,
                                fnIn.contentDisposition, fnIn.contentType)
       IN  \E renamed \in BOOLEAN :
              /\ renamed => dirname(finalPath(returned)) \in ExistingDirs
              /\ fnOut' = [done |-> TRUE, val |-> returned,
                           success |-> renamed,
                           filePath |-> finalPath(returned)]
    /\ UNCHANGED <<fnIn, sweepVars, mainVars>>

\* next(err) reaches errorHandler, which answers
CallErrorHandler ==
    /\ fnIn.fn = "errorHandler" /\ ~fnOut.done
    /\ fnOut' = [done |-> TRUE, val |-> errorHandler(fnIn.err, fnIn.env)]
    /\ UNCHANGED <<fnIn, sweepVars, mainVars>>

FnNext ==
    \/ CallIsSocialMediaUrl
    \/ CallFileName
    \/ CallErrorHandler

FnSpec == FnInit /\ [][FnNext]_vars

\* ------------------------------------------------- the cleanup sweeper
\* the directory the methods of VideoDownloader write into
cwdTemp == pathJoin(cwd, <<"temp">>)

\* server.js lies in backend/; the process is started from there or from
\* backend/src
WorkingDirs == {<<"backend">>, <<"backend", "src">>}

Writers == {"downloadFile", "downloadYouTubeVideo", "downloadWithYtdlp",
            "extractAudio"}

DirOfWriter(by) == IF by = "downloadFile" THEN tempDir ELSE cwdTemp

\* the server starts; nothing is in a temp directory and no request is
\* looked at
SweepInit ==
    /\ fnIn = NoCall
    /\ fnOut = NotReturned
    /\ NoRequest
    /\ cwd \in WorkingDirs
    /\ clock = 0
    /\ disk = [f \in FileIds |-> NoFile]
    /\ sweep = IdleSweep

\* one of the four writers creates a file of a fresh random name
WriteFile(f, by) ==
    /\ disk[f].state = "none"
    /\ \A g \in FileIds : g < f => disk[g].state # "none"
    /\ disk' = [disk EXCEPT ![f] = [state |-> "present",
                                    dir |-> DirOfWriter(by),
                                    mtime |-> clock]]
    /\ UNCHANGED <<callVars, mainVars, cwd, clock, sweep>>

\* a handler removes the file it was handed (fs.unlink(result.filePath))
HandlerUnlink(f) ==
    /\ disk[f].state = "present"
    /\ disk' = [disk EXCEPT ![f].state = "gone"]
    /\ UNCHANGED <<callVars, mainVars, cwd, clock, sweep>>

SweepAtRest == sweep.pc \in {"idle", "done"}

\* a time as it reads once the origin of the clock is a day later; what
\* lies before the new origin reads 0
ADayOn(t) == IF t < DayLength THEN 0 ELSE t - DayLength

\* Half a day passes. Times are kept within MaxClock: the step that would
\* leave it moves the origin of the clock a day on instead, and the mtime
\* of every file with it. A file from before the origin reads 0, which is
\* below the cutoff of every run that follows.
TimePasses ==
    IF clock < MaxClock
    THEN /\ clock' = clock + 1
         /\ disk' = disk
    ELSE /\ clock' = clock + 1 - DayLength
         /\ disk' = [f \in FileIds |-> [disk[f] EXCEPT !.mtime = ADayOn(@)]]

\* half a day passes without the cron expression matching
Tick ==
    /\ SweepAtRest
    /\ (clock + 1) % DayLength # 0
    /\ TimePasses
    /\ sweep' = IF clock < MaxClock THEN sweep
                ELSE [sweep EXCEPT !.cutoff = ADayOn(@)]
    /\ UNCHANGED <<callVars, mainVars, cwd>>

\* it becomes 2 AM: the cron callback calls cleanupTempFiles(1), which runs
\* up to its first await (fs.readdir)
CronFires ==
    /\ SweepAtRest
    /\ (clock + 1) % DayLength = 0
    /\ TimePasses
    /\ sweep' = [IdleSweep EXCEPT !.pc = "readdir"]
    /\ UNCHANGED <<callVars, mainVars, cwd>>

\* the names fs.readdir(tempDir) resolves with
Listed ==
    {f \in FileIds : disk[f].state = "present" /\ disk[f].dir = tempDir}

\* the for-of loop moves on to the next file, or the function returns
NextFile(sw) ==
    IF sw.k < Len(sw.files)
    THEN [sw EXCEPT !.pc = "stat", !.k = sw.k + 1]
    ELSE [sw EXCEPT !.pc = "done"]

\* the catch of the whole function: the run ends
CatchSweep(sw, what) == [sw EXCEPT !.pc = "done"]

\* a loop without a catch of its own: a failing file ends the run
CatchFileEndsRun(sw, what) ==
    [sw EXCEPT !.outcome[sw.files[sw.k]] = what, !.pc = "done"]

\* the catch inside the loop: the failure is logged, the loop goes on
CatchFile(sw, what) ==
    NextFile([sw EXCEPT !.outcome[sw.files[sw.k]] = what])

ReaddirResolve ==
    /\ sweep.pc = "readdir"
    /\ LET files == SeqOfSet([f \in FileIds |-> f], Listed)
           sw == [sweep EXCEPT !.files = files,
                               !.cutoff = clock - olderThanDays * DayLength]
       IN  sweep' = NextFile(sw)
    /\ UNCHANGED <<callVars, mainVars, cwd, clock, disk>>

ReaddirReject ==
    /\ sweep.pc = "readdir"
    /\ sweep' = CatchSweep(sweep, "readdir failed")
    /\ UNCHANGED <<callVars, mainVars, cwd, clock, disk>>

\* fs.stat resolves; an old file goes on to fs.unlink
StatResolve ==
    /\ sweep.pc = "stat"
    /\ LET f == sweep.files[sweep.k]
       IN  /\ disk[f].state = "present"
           /\ sweep' = IF disk[f].mtime < sweep.cutoff
                       THEN [sweep EXCEPT !.pc = "unlink"]
                       ELSE NextFile([sweep EXCEPT !.outcome[f] = "kept"])
    /\ UNCHANGED <<callVars, mainVars, cwd, clock, disk>>

Missing == disk[sweep.files[sweep.k]].state # "present"

StatReject ==
    /\ sweep.pc = "stat"
    /\ sweep' = CatchFile(sweep, "statFailed")
    /\ UNCHANGED <<callVars, mainVars, cwd, clock, disk>>

UnlinkResolve ==
    /\ sweep.pc = "unlink"
    /\ LET f == sweep.files[sweep.k]
       IN  /\ disk[f].state = "present"
           /\ disk' = [disk EXCEPT ![f].state = "gone"]
           /\ sweep' = NextFile([sweep EXCEPT !.outcome[f] = "deleted"])
    /\ UNCHANGED <<callVars, mainVars, cwd, clock>>

UnlinkReject ==
    /\ sweep.pc = "unlink"
    /\ sweep' = CatchFile(sweep, "unlinkFailed")
    /\ UNCHANGED <<callVars, mainVars, cwd, clock, disk>>

SweepNext ==
    \/ \E f \in FileIds, by \in Writers : WriteFile(f, by)
    \/ \E f \in FileIds : HandlerUnlink(f)
    \/ Tick
    \/ CronFires
    \/ ReaddirResolve
    \/ ReaddirReject
    \/ StatResolve
    \/ StatReject
    \/ UnlinkResolve
    \/ UnlinkReject

SweepSpec == SweepInit /\ [][SweepNext]_vars

\* the sweeper with a file system that serves it: readdir resolves, and
\* stat and unlink reject only for a file that is gone
StatStep == StatResolve \/ (StatReject /\ Missing)

UnlinkStep == UnlinkResolve \/ (UnlinkReject /\ Missing)

DailyNext ==
    \/ \E f \in FileIds, by \in Writers : WriteFile(f, by)
    \/ \E f \in FileIds : HandlerUnlink(f)
    \/ Tick
    \/ CronFires
    \/ ReaddirResolve
    \/ StatStep
    \/ UnlinkStep

\* time passes, the cron expression matches every day and every promise of
\* a run settles
DailySpec ==
    /\ SweepInit
    /\ [][DailyNext]_vars
    /\ WF_vars(Tick)
    /\ WF_vars(CronFires)
    /\ WF_vars(ReaddirResolve)
    /\ WF_vars(StatStep)
    /\ WF_vars(UnlinkStep)

\* ================================================================= claims
BatchHandlers == {"downloadMultiple", "batchDownloadVideos"}
SingleHandlers == {"downloadSingle", "downloadVideo"}

\* C1: every 200 answer of downloadMultiple has one results entry per input
\* URL, and the entry at each position carries the URL of that position.
C1_ResultsFollowUrls ==
    (handler = "downloadMultiple" /\ resp.status = 200)
        => /\ Len(resp.results) = Len(urls)
           /\ \A i \in 1..Len(urls) :
                i <= Len(resp.results) => resp.results[i].url = urls[i]

\* a 200 answer to two URLs whose entries are both in place
C1_Witness ==
    /\ handler = "downloadMultiple" /\ resp.status = 200
    /\ Len(urls) = 2 /\ Len(resp.results) = 2
    /\ resp.results[1].url = urls[1] /\ resp.results[2].url = urls[2]

\* one step of a batch handler as C2 allows it (the step in which the last
\* create resolves also launches the first items: their documents are
\* created pending, as the database shows, and set to downloading)
C2_Step ==
    handler \in BatchHandlers =>
        \A p \in Pos :
           /\ rec'[p].status # rec[p].status =>
                \/ <<rec[p].status, rec'[p].status>> \in
                      {<<"none", "pending">>, <<"pending", "downloading">>,
                       <<"downloading", "completed">>,
                       <<"downloading", "failed">>}
                \/ /\ rec[p].status = "none" /\ rec'[p].status = "downloading"
                   /\ db'[p].status = "pending"
           /\ rec[p].status \in Terminal =>
                /\ rec'[p].status = rec[p].status
                /\ rec'[p].error = rec[p].error

\* C2: in the batch handlers a record's status only moves
\* pending -> downloading -> completed | failed, and a record that has
\* been set to completed or failed keeps its status and error for good.
C2_ForwardOnly == [][C2_Step]_vars

\* a batch record that went through downloading and was saved as completed
C2_Witness ==
    /\ handler \in BatchHandlers
    /\ \E p \in Pos : db[p].status = "completed" /\ rec[p].status = "completed"

\* one step of a single-item handler as C3 allows it
C3_Step ==
    handler \in SingleHandlers =>
        /\ db[1].status = "completed" => db'[1] = db[1]
        /\ db'[1].status = "completed" =>
             rec'[1].status = "completed" /\ rec'[1].error = ""

\* C3: in the single-item handlers, once completed has been saved the
\* record stays completed and carries no error, in memory and as persisted.
C3_CompletedStays == [][C3_Step]_vars

\* downloadSingle saved completed and is sending the file
C3_Witness ==
    /\ handler = "downloadSingle" /\ phase = "sending"
    /\ db[1].status = "completed"

\* a record save has rejected somewhere in the request
SaveFault ==
    \E p \in Pos : ipc[p] = "rejected" \/ rec[p].error = "save failed"

\* the download of position p has failed: its stream went over maxSize, or
\* the catch block recorded an error that no save produced
DownloadFailed(p) ==
    \/ received[p] > maxSize
    \/ rec[p].status = "failed" /\ rec[p].error \notin {"", "save failed"}

\* C4: in downloadMultiple a failed download of one item (no record save
\* failing) leaves the process and the handler running, and the answer,
\* once sent, is a 200 with an entry for every URL.
C4_FaultIsolation ==
    (handler = "downloadMultiple" /\ ~SaveFault
        /\ \E p \in Pos : DownloadFailed(p))
        => /\ proc = "up"
           /\ phase # "error"
           /\ resp.status \in {0, 200}
           /\ resp.status = 200 =>
                \A p \in 1..Len(urls) :
                   /\ p <= Len(resp.results)
                   /\ resp.results[p].url = urls[p]

\* a 200 answer holding a failed first item and a successful second one
C4_Witness ==
    /\ handler = "downloadMultiple" /\ resp.status = 200
    /\ Len(resp.results) = 2
    /\ ~resp.results[1].success /\ resp.results[2].success

\* downloadFile calls started and not yet returned or thrown
InFlight == Cardinality({p \in Pos : ipc[p] \in {"request", "stream", "rename"}})

\* C5: the downloadFile calls downloadMultiple has in flight never number
\* more than min(options.maxConcurrent || 3, 5), hence never more than 5.
C5_CapRespected ==
    (handler = "downloadMultiple" /\ InFlight > 0)
        => /\ InFlight <= ConcurrentCeiling
           /\ ~maxDownloads.nan /\ 2 * InFlight <= maxDownloads.h

\* two downloads in flight under the default cap of 3
C5_Witness ==
    /\ handler = "downloadMultiple" /\ options.mcKind = "undefined"
    /\ InFlight = 2

\* C6: windows of downloadMultiple run one after another: when an item of
\* a later window has been launched, every item of an earlier window has
\* returned its result and its record is saved as completed or failed.
C6_WindowsInSequence ==
    handler = "downloadMultiple"
        => \A p, q \in Pos :
              (launchWin[p] > 0 /\ launchWin[q] > launchWin[p])
                 => /\ ipc[p] = "done"
                    /\ itemRes[p].set
                    /\ db[p].status \in Terminal

\* the second item runs in a second window, after the first one is done
C6_Witness ==
    /\ handler = "downloadMultiple"
    /\ launchWin[1] = 1 /\ launchWin[2] = 2
    /\ ipc[1] = "done" /\ ipc[2] = "request"

\* C7: in the batch handlers no item starts before every record of the
\* batch exists, created with status pending; and once a create has failed
\* the request has failed and no item of the batch is ever started.
C7_CreateBeforeDownload ==
    handler \in BatchHandlers
        => /\ (\E p \in Pos : ipc[p] # "idle")
                => \A q \in 1..Len(work) :
                      cpc[q] = "created" /\ db[q].status # "none"
           /\ \A q \in Pos :
                (cpc[q] = "created" /\ \A p \in Pos : ipc[p] = "idle")
                   => db[q].status = "pending" /\ rec[q].status = "pending"
           /\ (\E q \in Pos : cpc[q] = "createFailed")
                => /\ \A p \in Pos : ipc[p] = "idle"
                   /\ resp.status = 500

\* two records created, a download of the batch in flight
C7_Witness ==
    /\ handler \in BatchHandlers /\ Len(work) = 2
    /\ \E p \in Pos : ipc[p] \in {"request"} \cup VideoStages

\* nothing of the request is still running
Quiescent ==
    \A p \in Pos : cpc[p] # "creating" /\ ipc[p] \in {"idle", "done", "rejected"}

\* C8: once a batch request has been answered and its work has ended, no
\* record of the batch is left pending or downloading.
C8_NoRecordLeftOpen ==
    (handler \in BatchHandlers /\ resp.status # 0 /\ Quiescent)
        => \A p \in Pos : db[p].status \notin {"pending", "downloading"}

\* an answered batch of two whose records are both terminal
C8_Witness ==
    /\ handler \in BatchHandlers /\ resp.status = 200 /\ Len(work) = 2
    /\ db[1].status \in Terminal /\ db[2].status \in Terminal

\* C9: in every 200 answer of a batch handler successful + failed = total
\* and total is the number of entries of results.
C9_SummaryAddsUp ==
    (handler \in BatchHandlers /\ resp.status = 200)
        => /\ resp.successful + resp.failed = resp.total
           /\ resp.total = Len(resp.results)

\* a 200 answer counting one success and one failure
C9_Witness ==
    /\ handler \in BatchHandlers /\ resp.status = 200
    /\ resp.successful = 1 /\ resp.failed = 1 /\ resp.total = 2

\* C10: when the bytes streamed exceed maxSize the call has failed with
\* the size-exceeded reason in the caller's catch block, and the temp file
\* of the attempt is gone.
C10_StreamCeilingFails ==
    \A p \in Pos :
       received[p] > maxSize
          => /\ proc = "up"
             /\ rec[p].status = "failed"
             /\ rec[p].error = "File size exceeded during download"
             /\ fileAt[p] = "none"

\* a stream that went over maxSize
C10_Witness == \E p \in Pos : ipc[p] = "stream" /\ received[p] > maxSize

\* the messages of a downloadFile call rejected before streaming begins:
\* a status other than 200, a content type outside the five main types, a
\* declared content-length above maxSize
PreStreamMessages ==
    {"Server responded with 404", "Unsupported file type",
     "File size exceeds limit of " \o ToString(maxSize) \o "MB"}

\* C11: when downloadFile is rejected before streaming begins, no temp
\* file of that attempt exists and no byte of the body has been counted.
C11_NoFileBeforeStream ==
    \A p \in Pos :
       rec[p].error \in PreStreamMessages
          => fileAt[p] = "none" /\ received[p] = 0

\* an item rejected for its declared content-length, about to be saved
C11_Witness ==
    \E p \in Pos :
       /\ ipc[p] = "saveFail"
       /\ rec[p].error = "File size exceeds limit of "
                            \o ToString(maxSize) \o "MB"
       /\ fileAt[p] = "none"

\* the messages of a downloadFile call rejected after createWriteStream:
\* the pipeline failed, or the rename did
PostStreamMessages == {"aborted", "rename failed"}

\* C12: when downloadFile is rejected after its temp file was created, the
\* file is gone by the time the caller's catch block has the error.
C12_TempFileRemoved ==
    \A p \in Pos :
       rec[p].error \in PostStreamMessages => fileAt[p] = "none"

\* a failed stream whose temp file was unlinked before the rethrow
C12_Witness ==
    \E p \in Pos :
       /\ ipc[p] = "saveFail" /\ rec[p].error = "aborted"
       /\ fileAt[p] = "none"

\* the platforms that list the host itself or a domain the host is a
\* dot-separated subdomain of
Owners(host) ==
    {supportedPlatforms[k].platform : k \in
       {k \in 1..Len(supportedPlatforms) :
          \E j \in 1..Len(supportedPlatforms[k].domains) :
             LET d == supportedPlatforms[k].domains[j]
             IN  host = d \/ EndsWith(host, <<".">> \o d)}}

\* C13: for a parsable URL isSocialMediaUrl answers platform P exactly
\* when the lower-cased host is a domain listed for P or a subdomain of
\* one; a host that only contains a listed domain is not matched, and the
\* path and query play no part.
C13_HostOnlyMatch ==
    (fnIn.fn = "isSocialMediaUrl" /\ fnOut.done
        /\ ~UrlHostname(fnIn.url).throws)
        => LET host == toLowerCase(UrlHostname(fnIn.url).hostname)
           IN  /\ fnOut.val.isSocialMedia <=> Owners(host) # {}
               /\ fnOut.val.isSocialMedia
                    => fnOut.val.platform \in Owners(host)

\* m.youtube.com with another platform's name in its query is youtube
C13_Witness ==
    /\ fnIn.fn = "isSocialMediaUrl" /\ fnOut.done
    /\ fnIn.url = <<"h", "t", "t", "p", "s", ":", "/", "/", "m", ".", "y", "o", "u", "t", "u", "b", "e", ".", "c", "o", "m", "/", "w", "a", "t", "c", "h", "?", "v", "=", "e", "v", "i", "l", "-", "i", "n", "s", "t", "a", "g", "r", "a", "m", ".", "c", "o", "m">>
    /\ fnOut.val.platform = "youtube"

\* C14: for a string that is no parsable URL isSocialMediaUrl returns
\* {isSocialMedia: false, platform: null} and does not throw.
C14_MalformedNotMatched ==
    (fnIn.fn = "isSocialMediaUrl" /\ fnOut.done
        /\ UrlHostname(fnIn.url).throws)
        => fnOut.val = NotMatched

\* the call on a string without a scheme has returned
C14_Witness ==
    /\ fnIn.fn = "isSocialMediaUrl" /\ fnOut.done
    /\ fnIn.url = <<"y", "o", "u", "t", "u", "b", "e", ".", "c", "o", "m", "/", "w", "a", "t", "c", "h">>
    /\ ~fnOut.val.isSocialMedia

VideoHandlers == {"downloadVideo", "batchDownloadVideos"}

\* the URL at position p is a youtube URL
IsYoutube(p) ==
    "youtube" \in Owners(toLowerCase(UrlHostname(Chars(work[p])).hostname))

\* C15: VideoDownloader.downloadVideo tries downloadYouTubeVideo first for
\* a youtube URL and downloadWithYtdlp once, only after that attempt has
\* failed; for any other platform it invokes downloadWithYtdlp alone,
\* once; a failure reaches the caller only from the last strategy invoked.
C15_StrategyOrder ==
    \A p \in Pos :
       (handler \in VideoHandlers /\ tried[p] # <<>>)
          => /\ IsYoutube(p) => tried[p] \in {<<"ytdl">>, <<"ytdl", "ytdlp">>}
             /\ ~IsYoutube(p) => tried[p] = <<"ytdlp">>
             /\ ipc[p] \in {"ytInfo", "ytPipe", "ytStat"}
                  => tried[p] = <<"ytdl">>
             /\ rec[p].error = "Video download failed"
                  => tried[p][Len(tried[p])] = "ytdlp"
             /\ rec[p].status = "completed"
                  => tried[p][Len(tried[p])] \notin left[p]

\* a youtube item whose primary attempt failed and whose fallback succeeded
C15_Witness ==
    \E p \in Pos :
       /\ handler \in VideoHandlers
       /\ tried[p] = <<"ytdl", "ytdlp">>
       /\ rec[p].status = "completed" /\ rec[p].error = ""

\* C16: when VideoDownloader.downloadVideo has failed, no file written
\* during the call is in the temp directory.
C16_NoFileAfterFailure ==
    \A p \in Pos :
       (handler \in VideoHandlers /\ rec[p].error = "Video download failed")
          => left[p] = {}

\* a failed call that left nothing: yt-dlp wrote no file
C16_Witness ==
    \E p \in Pos :
       /\ handler \in VideoHandlers
       /\ rec[p].error = "Video download failed" /\ ipc[p] = "saveFail"
       /\ left[p] = {}

\* C17: every 200 answer of batchDownloadVideos has one results entry per
\* input URL, and the entry at each position carries the URL of that
\* position.
C17_VideoResultsFollowUrls ==
    (handler = "batchDownloadVideos" /\ resp.status = 200)
        => /\ Len(resp.results) = Len(urls)
           /\ \A i \in 1..Len(urls) :
                i <= Len(resp.results) => resp.results[i].url = urls[i]

\* a 200 answer to two video URLs whose entries are both in place
C17_Witness ==
    /\ handler = "batchDownloadVideos" /\ resp.status = 200
    /\ Len(urls) = 2 /\ Len(resp.results) = 2
    /\ resp.results[1].url = urls[1] /\ resp.results[2].url = urls[2]

\* a batch body as C18 describes it: urls missing, no array, empty, longer
\* than 10, or holding a string that does not start with http:// or
\* https://
BadBatchBody ==
    \/ urlsKind # "array"
    \/ Len(urls) = 0
    \/ Len(urls) > 10
    \/ \E i \in 1..Len(urls) :
          /\ ~StartsWith(Chars(urls[i]), <<"h", "t", "t", "p", ":", "/", "/">>)
          /\ ~StartsWith(Chars(urls[i]), <<"h", "t", "t", "p", "s", ":", "/", "/">>)

\* C18: a batch request with such a body is answered 400, and no Download
\* record is created and no download started for it.
C18_BadBatchRefused ==
    (handler \in BatchHandlers /\ BadBatchBody)
        => /\ resp.status \in {0, 400}
           /\ phase # "received" => resp.status = 400
           /\ \A p \in Pos :
                /\ cpc[p] = "idle" /\ ipc[p] = "idle"
                /\ rec[p] = NoDoc /\ db[p] = NoDoc

\* a batch holding an ftp URL after a valid one has been answered 400
C18_Witness ==
    /\ handler \in BatchHandlers /\ resp.status = 400
    /\ urls = <<"https://youtube.com/watch", "ftp://example.com/a.pdf">>

\* the name C19 gives a download: the caller's name; else the header's
\* name; else the last path segment of the URL if it is not empty; else
\* the fallback name (header and URL names as sanitizeFileName leaves them)
NameByPriority(url, customFileName, contentDisposition) ==
    LET segment == basename(UrlPathname(url))
    IN  IF customFileName # <<>> THEN customFileName
        ELSE IF contentDisposition.present
                /\ contentDisposition.filename # <<>>
        THEN sanitizeFileName(contentDisposition.filename)
        ELSE IF segment # <<>> THEN sanitizeFileName(segment)
        ELSE <<"d", "o", "w", "n", "l", "o", "a", "d", "e", "d", "_", "f", "i", "l", "e">>

\* C19: the file name a successful downloadFile returns is the one the
\* priority customFileName > Content-Disposition > last URL segment >
\* fallback selects, as it is or with an extension appended.
C19_NamePriority ==
    (fnIn.fn = "downloadFile" /\ fnOut.done)
        => LET name == NameByPriority(fnIn.url, fnIn.customFileName,
                                      fnIn.contentDisposition)
           IN  \/ fnOut.val = name
               \/ StartsWith(fnOut.val, name \o <<".">>)

\* the caller's name wins over a header name and a URL name
C19_Witness ==
    /\ fnIn.fn = "downloadFile" /\ fnOut.done
    /\ fnIn.customFileName = <<"m", "y", ".", "t", "x", "t">>
    /\ fnIn.contentDisposition.filename = <<"h", ".", "p", "n", "g">>
    /\ fnIn.url = <<"h", "t", "t", "p", "s", ":", "/", "/", "e", "x", "a", "m", "p", "l", "e", ".", "c", "o", "m", "/", "a", ".", "p", "d", "f">>
    /\ fnOut.val = <<"m", "y", ".", "t", "x", "t">>

\* C20: within one downloadMultiple request downloadFile is never called
\* twice for a position, and when the request is answered 200 it has been
\* called once for every position of urls.
C20_OneCallPerPosition ==
    handler = "downloadMultiple"
        => \A p \in 1..Len(urls) :
              /\ p \in Pos => calls[p] <= 1
              /\ (resp.status = 200 /\ p \in Pos) => calls[p] = 1

\* a 200 answer for two items, each called once, the first one failed
C20_Witness ==
    /\ handler = "downloadMultiple" /\ resp.status = 200
    /\ Len(urls) = 2 /\ calls[1] = 1 /\ calls[2] = 1
    /\ Len(resp.results) = 2 /\ ~resp.results[1].success

\* the half of C20 that speaks of retries alone
NoSecondCall == \A p \in Pos : calls[p] <= 1

\* C21: one run of cleanupTempFiles examines every file that fs.readdir
\* listed, whatever failed for the files before it; a file it has deleted
\* had a modification time older than the cutoff, and a file it examined
\* without failure and did not delete has a modification time at or after
\* the cutoff.
C21_SweepExaminesAll ==
    /\ sweep.pc = "done"
          => \A i \in 1..Len(sweep.files) :
                sweep.outcome[sweep.files[i]] # "none"
    /\ \A f \in FileIds :
          /\ sweep.outcome[f] = "deleted"
                => disk[f].state = "gone" /\ disk[f].mtime < sweep.cutoff
          /\ sweep.outcome[f] = "kept" => disk[f].mtime >= sweep.cutoff
          /\ (disk[f].state = "present" /\ disk[f].mtime >= sweep.cutoff)
                => sweep.outcome[f] \in {"none", "kept", "statFailed"}

\* a run in which the first file could not be examined and the second was
\* deleted
C21_Witness ==
    /\ sweep.pc = "done" /\ Len(sweep.files) = 2
    /\ sweep.outcome[sweep.files[1]] \in {"statFailed", "unlinkFailed"}
    /\ sweep.outcome[sweep.files[2]] = "deleted"

\* C25: every file written into a temp directory is eventually deleted, by
\* the handler it was handed to or by a run of cleanupTempFiles once it is
\* older than the retention, when the sweeper runs every day and stat and
\* unlink serve it.
C25_EveryFileReclaimed ==
    \A f \in FileIds : (disk[f].state = "present") ~> (disk[f].state = "gone")

\* the last run of the days modelled has ended and a file of a video
\* download, older than its cutoff, is still there
C25_Witness ==
    /\ clock = MaxClock /\ sweep.pc = "done"
    /\ \E f \in FileIds :
          /\ disk[f].state = "present" /\ disk[f].mtime < sweep.cutoff
          /\ disk[f].dir = cwdTemp /\ cwdTemp # tempDir

\* what cleanupTempFiles does reclaim: the files of the directory it lists
SweptDirReclaimed ==
    \A f \in FileIds :
        (disk[f].state = "present" /\ disk[f].dir = tempDir)
            ~> (disk[f].state = "gone")

\* C22: the response of errorHandler carries the error object and the stack
\* only when NODE_ENV is 'development'; in every other mode an error that
\* is not an AppError is answered with status 500 and the message
\* 'Something went wrong!' and nothing else of the error.
C22_DetailOnlyInDevelopment ==
    (fnIn.fn = "errorHandler" /\ fnOut.done)
        => /\ fnOut.val.body.keys \cap {"error", "stack"} # {}
                 => fnIn.env = "development"
           /\ (fnIn.env # "development" /\ ~fnIn.err.isAppError)
                 => /\ fnOut.val.code = 500
                    /\ fnOut.val.body.keys = {"success", "message"}
                    /\ fnOut.val.body.message = "Something went wrong!"
                    /\ fnOut.val.body.stack = ""

\* a library error that carries a status code of its own, answered outside
\* development
C22_Witness ==
    /\ fnIn.fn = "errorHandler" /\ fnOut.done
    /\ fnIn.env = "undefined"
    /\ ~fnIn.err.isAppError /\ fnIn.err.statusCode = 400
    /\ fnOut.val.code = 500

Begun == {"downloading", "completed", "failed"}

\* C23: in batchDownloadVideos at most one VideoDownloader.downloadVideo
\* call is in flight at any moment, and an item is set to downloading only
\* after the record of the item before it has been saved as completed or
\* failed and that item's result has been appended.
C23_OneVideoAtATime ==
    handler = "batchDownloadVideos"
        => /\ Cardinality({p \in Pos : ipc[p] \in VideoStages}) <= 1
           /\ \A p \in Pos :
                 (p > 1 /\ rec[p].status \in Begun)
                     => /\ db[p - 1].status \in Terminal
                        /\ ipc[p - 1] = "done"
                        /\ Len(results) >= p - 1

\* the second video of a batch is being downloaded after the first failed
C23_Witness ==
    /\ handler = "batchDownloadVideos" /\ Len(work) = 2
    /\ ipc[2] \in VideoStages
    /\ db[1].status = "failed" /\ Len(results) = 1

\* C27: every Download.create call the handlers make supplies all the paths
\* the Download schema requires (user, fileName, fileUrl).
C27_RequiredPathsSupplied ==
    \A p \in Pos : cpc[p] # "idle" => PassesValidation(handler)

\* a valid batch request has issued its Download.create calls
C27_Witness ==
    /\ handler \in BatchHandlers /\ urlsKind = "array"
    /\ phase = "creating"
    /\ \A p \in 1..Len(work) : cpc[p] = "creating"
    /\ Len(work) = 2

\* the messages the five causes are to be reported with
ExpectedMessages(c) ==
    IF c = "ECONNABORTED" THEN {"Download timeout"}
    ELSE IF c = "ENOTFOUND" THEN {"Cannot resolve URL"}
    ELSE IF c = "status404" THEN {"Server responded with 404"}
    ELSE IF c = "type" THEN {"Unsupported file type"}
    ELSE {"File size exceeds limit of " \o ToString(maxSize) \o "MB",
          "File size exceeded during download"}

FiveCauses == {"ECONNABORTED", "ENOTFOUND", "status404", "type",
               "declaredSize", "streamedSize"}

CauseClass(c) == IF c = "streamedSize" THEN "declaredSize" ELSE c

Identified(C) ==
    /\ \A p \in Pos :
          cause[p] \in C => /\ rec[p].status = "failed"
                            /\ rec[p].error \in ExpectedMessages(cause[p])
    /\ \A p, q \in Pos :
          (cause[p] \in C /\ cause[q] \in C
             /\ CauseClass(cause[p]) # CauseClass(cause[q]))
              => rec[p].error # rec[q].error

\* C24: when a downloadFile call has failed by a timeout, an unresolvable
\* host, a non-200 response, a declared or streamed size violation or a
\* disallowed content type, the item carries the message of that cause,
\* and items failed by different causes carry different messages.
C24_MessageIdentifiesCause == Identified(FiveCauses)

\* a body has grown past the ceiling while it was streamed
C24_Witness ==
    \E p \in Pos : cause[p] = "streamedSize" /\ received[p] > maxSize

\* the causes met before the body is streamed are reported as required
RejectedCausesIdentified == Identified(FiveCauses \ {"streamedSize"})

\* two items of one batch failed by different causes
TwoCauses ==
    /\ handler = "downloadMultiple"
    /\ cause[1] = "ECONNABORTED" /\ cause[2] = "declaredSize"

\* C28: in a 200 answer of a batch handler, position by position, the entry
\* is a success exactly when the record was last saved completed, with the
\* entry's fileName and fileSize, and a failure exactly when the record
\* was last saved failed, with the entry's error.
C28_EntriesMatchRecords ==
    (handler \in BatchHandlers /\ resp.status = 200)
        => \A i \in 1..Len(work) :
              LET has == i <= Len(resp.results)
              IN  /\ (has /\ resp.results[i].success)
                        <=> db[i].status = "completed"
                  /\ (has /\ ~resp.results[i].success)
                        <=> db[i].status = "failed"
                  /\ (has /\ resp.results[i].success)
                        => /\ db[i].fileName = resp.results[i].fileName
                           /\ db[i].fileSize = resp.results[i].fileSize
                  /\ (has /\ ~resp.results[i].success)
                        => db[i].error = resp.results[i].error

\* a 200 answer with a success and a failure, the failure being one whose
\* completed save was refused
C28_Witness ==
    /\ handler \in BatchHandlers /\ resp.status = 200
    /\ Len(resp.results) = 2
    /\ resp.results[1].success /\ db[1].status = "completed"
    /\ db[1].fileSize > 0
    /\ ~resp.results[2].success /\ db[2].error = "save failed"

\* C26: once the records are created, the window loop of downloadMultiple
\* ends and a response is sent, whatever options.maxConcurrent is, when
\* every download and every save settles (a process ended by an uncaught
\* exception aside).
C26_LoopEnds ==
    (handler = "downloadMultiple" /\ phase = "window")
        ~> (resp.status # 0 \/ proc = "exited")

\* the loop has gone through as many windows as are modelled, moving away
\* from urls.length, and has answered nothing
C26_Witness ==
    /\ handler = "downloadMultiple" /\ phase = "window"
    /\ winNo = MaxIter /\ idx < 0 /\ ~maxDownloads.nan /\ maxDownloads.h < 0
    /\ WindowSettled /\ resp.status = 0

\* what keeping iteration MaxIter + 1 as iteration MaxIter - 1 relies on:
\* from iteration MaxIter - 1 on the window is empty, i is below every
\* position of urls and goes down
LoopFolded ==
    (handler = "downloadMultiple" /\ winNo >= MaxIter - 1)
        => /\ ~maxDownloads.nan /\ maxDownloads.h < 0
           /\ win = {} /\ Trunc(idx) <= -Len(work)
           /\ phase = "window"

\* the loop does end for every value that is not negative
LoopEndsUnlessNegative ==
    (handler = "downloadMultiple" /\ phase = "window"
        /\ (maxDownloads.nan \/ maxDownloads.h > 0))
        ~> (resp.status # 0 \/ proc = "exited")

\* C29: the filePath a successful downloadFile returns is a direct child of
\* the temp directory: the file name appended to the temp id holds no path
\* separator and no ".." sequence, whatever customFileName was.
C29_FileStaysInTempDir ==
    (fnIn.fn = "downloadFile" /\ fnOut.done /\ fnOut.success)
        => /\ dirname(fnOut.filePath) = tempDir
           /\ ~Includes(fnOut.val, <<"/">>)
           /\ ~Includes(fnOut.val, <<".", ".">>)

\* a caller's name that climbs out of the temp directory, and the rename
\* to it has succeeded
C29_Witness ==
    /\ fnIn.fn = "downloadFile" /\ fnOut.done /\ fnOut.success
    /\ StartsWith(fnIn.customFileName, <<".", ".", "/">>)
    /\ fnOut.filePath = <<"backend", "src", "x.txt">>

\* a name taken from the response or the URL does stay in the temp directory
SanitizedNameStays ==
    (fnIn.fn = "downloadFile" /\ fnOut.done /\ fnIn.customFileName = <<>>)
        => /\ dirname(fnOut.filePath) = tempDir
           /\ ~Includes(fnOut.val, <<"/">>)
           /\ ~Includes(fnOut.val, <<".", ".">>)

\* C30: whatever the request body of download-single or download-multiple
\* holds, options.maxSize included, a downloadFile call enforces a ceiling
\* of at most MAX_FILE_SIZE, and no download above it is recorded.
C30_CeilingNotRaised ==
    \A p \in Pos :
        /\ ipc[p] \in {"request", "stream", "rename"}
              => maxSize <= MAX_FILE_SIZE
        /\ db[p].status = "completed" => db[p].fileSize <= MAX_FILE_SIZE

\* a download of 150MB recorded as completed for a body with options.maxSize
C30_Witness ==
    /\ handler = "downloadMultiple" /\ options.maxSize > MAX_FILE_SIZE
    /\ \E p \in Pos :
          db[p].status = "completed" /\ db[p].fileSize > MAX_FILE_SIZE

\* without options.maxSize the ceiling is MAX_FILE_SIZE on both routes
CeilingWithoutMaxSize ==
    (handler \in {"downloadSingle", "downloadMultiple"}
        /\ options.maxSize = -1)
        => \A p \in Pos :
              ipc[p] \in {"request", "stream", "rename"}
                 => maxSize = MAX_FILE_SIZE

=============================================================================
